---------------------------- MODULE Spec2Model ----------------------------
(***************************************************************************)
(* Binary framing layer of the ML2 sensor readers: the live multiplex      *)
(* receiver (depth_receiver.py), the depth block decoder and frame         *)
(* iterator (depth_decoder.py), the CVPOSE file reader                     *)
(* (ml2_read_cvpose.py), the HEADPOSE readers (ml2_read_headpose.py,       *)
(* ml2_correctness_report.py), the CVPOSE version resolver                 *)
(* (ml2_correctness_report.py) and the kind detectors (ml2_autodetect.py,  *)
(* ml2_correctness_report.py).  Bytes are integers 0..255, byte strings    *)
(* are sequences of bytes, struct formats are sequences of field codes.    *)
(***************************************************************************)
EXTENDS Integers, Sequences, FiniteSets, TLC

VARIABLES
    \* ---- live receiver (depth_receiver.py) ----
    sent,        \* the frames the peer wrote to the connection, in order
    wire,        \* the bytes the peer delivered before closing the connection
    rpos,        \* number of bytes conn.recv has returned so far
    rstate,      \* "header" | "payload" | "failed": where main() is
    want,        \* n of the recvn call in progress
    buf,         \* buf of the recvn call in progress
    hdr,         \* the unpacked header while its payload is being read
    hdrStart,    \* value of rpos when the current header's recvn was entered
    deliveries,  \* every open(fname,"wb")/write(payload) performed, in order
    files,       \* content of OUTDIR: set of [name, data]
    error,       \* the exception that ended main(), or NoError
    \* ---- block decoder (depth_decoder.py, Block) ----
    blk,         \* the Block decode() is called on
    bstate,      \* "ready" | "done"
    bresult,     \* what decode() returned or raised
    \* ---- depth container iterator (depth_decoder.py, iter_frames) ----
    written,     \* the frames the writer appended to the container
    dfile,       \* the bytes of the container file on disk
    dpos,        \* position of the open file f
    dstate,      \* "start" | "prefix" | "slots" | "ended" | "failed"
    dcur,        \* the frame being read: index, time, blocks, slots read
    yielded,     \* the Frames yielded so far, in order
    derror,      \* the exception that escaped the generator, or NoError
    \* ---- CVPOSE reader (ml2_read_cvpose.py, read_cvpose) ----
    cwritten,    \* the records the writer appended to the container
    cfile,       \* the bytes of the container file on disk
    cpos,        \* position of the open file f
    cstate,      \* "start" | "loop" | "returned" | "failed"
    crows,       \* the records appended to ts/result/quat/pos so far
    cerror,      \* the exception read_cvpose raised, or NoError
    \* ---- HEADPOSE readers (ml2_read_headpose.py, ml2_correctness_report.py)
    hreader,     \* which read_headpose runs: "ml2_read_headpose" | "report"
    hwritten,    \* the records the writer appended to the container
    hfile,       \* the bytes of the container file on disk
    hpos,        \* position of the open file f
    hstate,      \* "start" | "loop" | "after" | "returned" | "failed"
    hrows,       \* the records kept so far (the lists / frames)
    herror,      \* the exception read_headpose raised, or NoError
    \* ---- CVPOSE reader of ml2_correctness_report.py (version resolver) ----
    vlayout,     \* the record layout the writer used: "v1" | "v2"
    vfile,       \* the bytes of the container file on disk
    vstate,      \* "start" | "resolve" | "rows" | "returned" | "failed"
    vver,        \* ver, the declared version
    vdata,       \* data, the bytes after the header
    vrows,       \* rows
    vmode,       \* mode
    vresult,     \* the dict returned
    verror,      \* the exception read_cvpose raised, or NoError
    \* ---- kind detectors (ml2_autodetect.py, ml2_correctness_report.py) ----
    tfile,       \* the bytes of the file both detectors are given
    tbin,        \* outcome of detect_bin_type(path), or NotCalled
    ttype,       \* outcome of detect_type(path), or NotCalled
    \* ---- container readers (ROS2Bridge, Python_files) ----
    xkind,       \* the kind of container written
    xsrc,        \* the container as written: header and records
    xfile,       \* the bytes of the file on disk
    xpos,        \* per reader: f.tell()
    xstate,      \* per reader: "off" | "start" | "loop" | "slots" |
                 \*   "returned" | "failed"
    xrecs,       \* per reader: the records it has collected
    xcur,        \* per reader: the depth frame being read
    xerror       \* per reader: the exception it raised, or NoError

recvVars == <<sent, wire, rpos, rstate, want, buf, hdr, hdrStart, deliveries,
              files, error>>

blockVars == <<blk, bstate, bresult>>

iterVars == <<written, dfile, dpos, dstate, dcur, yielded, derror>>

cvVars == <<cwritten, cfile, cpos, cstate, crows, cerror>>

headVars == <<hreader, hwritten, hfile, hpos, hstate, hrows, herror>>

resVars == <<vlayout, vfile, vstate, vver, vdata, vrows, vmode, vresult,
             verror>>

detVars == <<tfile, tbin, ttype>>

rdVars == <<xkind, xsrc, xfile, xpos, xstate, xrecs, xcur, xerror>>

vars == <<recvVars, blockVars, iterVars, cvVars, headVars, resVars, detVars,
          rdVars>>

\* what each program leaves alone
notRecvVars ==
    <<blockVars, iterVars, cvVars, headVars, resVars, detVars, rdVars>>
notBlockVars ==
    <<recvVars, iterVars, cvVars, headVars, resVars, detVars, rdVars>>
notIterVars ==
    <<recvVars, blockVars, cvVars, headVars, resVars, detVars, rdVars>>
notCvVars ==
    <<recvVars, blockVars, iterVars, headVars, resVars, detVars, rdVars>>
notHeadVars ==
    <<recvVars, blockVars, iterVars, cvVars, resVars, detVars, rdVars>>
notResVars ==
    <<recvVars, blockVars, iterVars, cvVars, headVars, detVars, rdVars>>
notDetVars ==
    <<recvVars, blockVars, iterVars, cvVars, headVars, resVars, rdVars>>
notRdVars ==
    <<recvVars, blockVars, iterVars, cvVars, headVars, resVars, detVars>>

--------------------------------------------------------------------------
(* Bounds of the model *)

MaxFrames == 2     \* frames the peer writes on one connection
MaxChunk == 2      \* conn.recv returns 1..MaxChunk bytes, or all it was asked
CutSlack == 1      \* the peer closes within CutSlack bytes of a header or
                   \* payload boundary (before or after it)
MaxWidth == 3      \* Block.width ranges over -1..MaxWidth
MaxHeight == 2     \* Block.height ranges over -1..MaxHeight
MaxStride == 8     \* Block.stride ranges over -4, 0..MaxStride
MaxBytes == 16     \* Block.nbytes ranges over -1..MaxBytes
MaxBridgeRecords == 3  \* IMU, CV-pose and head-pose records in a file
MaxStreamRecords == 2  \* RGB+pose and world-camera frames in a file
MaxMissing == 2        \* bytes missing from the end of a file
MaxDepthFrames == 2 \* frames written to a depth container
MaxCvRecords == 2  \* records written to a CVPOSE container
MaxHeadRecords == 2 \* records written to a HEADPOSE container
MaxAfterMagic == 4 \* bytes a file given to the detectors has after its
                   \* 8 leading bytes
MaxResRecords == 3 \* records written to a CVPOSE container given to the
                   \* version resolver

--------------------------------------------------------------------------
(* Byte-level helpers: what struct.pack / struct.unpack do with "<" *)

Min(a, b) == IF a < b THEN a ELSE b
Max(a, b) == IF a > b THEN a ELSE b

Take(s, n) == SubSeq(s, 1, Min(n, Len(s)))
Drop(s, n) == SubSeq(s, Min(n, Len(s)) + 1, Len(s))

Zeros(n) == [i \in 1..n |-> 0]

RECURSIVE ToLE(_, _)
\* little-endian two's-complement encoding of v on w bytes
ToLE(v, w) == IF w = 0 THEN <<>> ELSE <<v % 256>> \o ToLE(v \div 256, w - 1)

RECURSIVE LEValue(_)
\* unsigned little-endian value of a byte string
LEValue(b) == IF b = <<>> THEN 0 ELSE b[1] + 256 * LEValue(Tail(b))

\* the value of b is below 2^31
Narrow(b) ==
    /\ \A i \in 5..Len(b) : b[i] = 0
    /\ Len(b) >= 4 => b[4] < 128

\* int.from_bytes(b, "little"): the integer when it is below 2^31; a wider
\* value is kept as <<"wide", b>>, the bytes that determine it
FromLE(b) == IF Narrow(b) THEN LEValue(Take(b, 4)) ELSE <<"wide", b>>

\* signed (two's-complement) little-endian value of a byte string; a value
\* below -(2^31 - 1) is kept as <<"wide-", b>>
FromLESigned(b) ==
    IF b[Len(b)] >= 128
    THEN LET c == [i \in 1..Len(b) |-> 255 - b[i]]
         IN IF Narrow(c) /\ LEValue(Take(c, 4)) < 2147483647
            THEN -(LEValue(Take(c, 4)) + 1)
            ELSE <<"wide-", b>>
    ELSE FromLE(b)

\* struct field codes: <<code, count>>, standard sizes, no padding ("<")
CodeSize(c) ==
    CASE c = "s" -> 1  [] c = "B" -> 1  [] c = "?" -> 1
      [] c = "H" -> 2
      [] c = "I" -> 4  [] c = "i" -> 4  [] c = "f" -> 4
      [] c = "Q" -> 8  [] c = "q" -> 8

FieldSize(fld) == IF fld[1] = "s" THEN fld[2] ELSE CodeSize(fld[1])

RECURSIVE calcsize(_)
calcsize(fmt) ==
    IF fmt = <<>> THEN 0 ELSE FieldSize(fmt[1]) + calcsize(Tail(fmt))

\* value of one field: byte strings stay bytes, floats are kept as their
\* IEEE bit pattern, integers are decoded
FieldValue(fld, b) ==
    CASE fld[1] = "s" -> b
      [] fld[1] = "f" -> <<"f32", b>>
      [] fld[1] = "?" -> b[1] # 0
      [] fld[1] \in {"B", "H", "I", "Q"} -> FromLE(b)
      [] fld[1] \in {"i", "q"} -> FromLESigned(b)

RECURSIVE unpack(_, _)
\* struct.unpack(fmt, b) for Len(b) = calcsize(fmt)
unpack(fmt, b) ==
    IF fmt = <<>> THEN <<>>
    ELSE <<FieldValue(fmt[1], Take(b, FieldSize(fmt[1])))>>
         \o unpack(Tail(fmt), Drop(b, FieldSize(fmt[1])))

RECURSIVE Dec(_)
\* decimal digits of n >= 0, as str(n) prints them
Dec(n) == IF n < 10 THEN <<n>> ELSE Dec(n \div 10) \o <<n % 10>>

\* format spec 06d: zero-padded to at least six digits
Fmt06d(n) == Zeros(Max(0, 6 - Len(Dec(n)))) \o Dec(n)

RECURSIVE DecValue(_)
\* int(digits)
DecValue(d) ==
    IF d = <<>> THEN 0 ELSE 10 * DecValue(SubSeq(d, 1, Len(d) - 1)) + d[Len(d)]

--------------------------------------------------------------------------
(* depth_receiver.py: constants *)

OUTDIR == "depth_recv"

\* mutant of HDR_FMT: the capture time unpacked as a u32 ("I" for "Q")
HDR_FMT_ShortTimestamp ==
    << <<"s", 4>>, <<"I", 1>>, <<"H", 1>>, <<"H", 1>>, <<"I", 1>>,
       <<"I", 1>>, <<"I", 1>>, <<"I", 1>>, <<"I", 1>>, <<"I", 1>> >>

\* "<4sIHHIQIIII"
HDR_FMT == << <<"s", 4>>, <<"I", 1>>, <<"H", 1>>, <<"H", 1>>, <<"I", 1>>,
              <<"Q", 1>>, <<"I", 1>>, <<"I", 1>>, <<"I", 1>>, <<"I", 1>> >>

HDR_SIZE == calcsize(HDR_FMT)

\* b"ML2S"
MAGIC == <<77, 76, 50, 83>>

SENSOR_DEPTH == 1
SENSOR_WORLDCAM == 2
SENSOR_IMU == 3

NoError == [type |-> "none", msg |-> "none"]
NoHdr == [magic |-> <<>>, ver |-> 0, sensor_type |-> 0, stream_id |-> 0,
          frame_idx |-> 0, ts_ns |-> 0, w |-> 0, h |-> 0, dtype |-> 0,
          payload_len |-> 0]

--------------------------------------------------------------------------
(* The peer: what the headset writes on the wire *)

\* one frame as the peer writes it: the ten header fields of the comment
\* "magic(4s), ver(u32), sensorType(u16), streamId(u16), frame_idx(u32),
\*  ts_ns(u64), w(u32), h(u32), dtype(u32), payload_len(u32)", then payload
WireHeader(fr) ==
    fr.magic \o ToLE(fr.ver, 4) \o ToLE(fr.sensor_type, 2)
    \o ToLE(fr.stream_id, 2) \o ToLE(fr.frame_idx, 4) \o ToLE(fr.ts_ns, 8)
    \o ToLE(fr.w, 4) \o ToLE(fr.h, 4) \o ToLE(fr.dtype, 4)
    \o ToLE(Len(fr.payload), 4)

WireFrame(fr) == WireHeader(fr) \o fr.payload

RECURSIVE WireStream(_)
WireStream(frs) ==
    IF frs = <<>> THEN <<>> ELSE WireFrame(frs[1]) \o WireStream(Tail(frs))

MkFrame(m, v, st, sid, fi, ts, w, h, p) ==
    [magic |-> m, ver |-> v, sensor_type |-> st, stream_id |-> sid,
     frame_idx |-> fi, ts_ns |-> ts, w |-> w, h |-> h, dtype |-> 0,
     payload |-> p]

\* the frames a peer may write: the three known sensor types, two values
\* outside the closed set, a foreign magic and an unsupported version
FrameChoices ==
    { MkFrame(MAGIC, 1, 1, 0, 7, 0, 4, 4, Zeros(64)),
      MkFrame(MAGIC, 1, 2, 1, 300, 5, 2, 1, <<17, 34>>),
      MkFrame(MAGIC, 1, 3, 513, 1234567, 1000, 0, 0, <<>>),
      MkFrame(MAGIC, 1, 0, 2, 30, 9, 0, 0, <<255>>),
      MkFrame(MAGIC, 1, 259, 0, 7, 0, 4, 4, <<1, 2, 3>>),
      MkFrame(<<77, 76, 50, 88>>, 1, 1, 0, 8, 0, 4, 4, <<9>>),
      MkFrame(MAGIC, 2, 1, 0, 9, 0, 4, 4, <<9>>) }

FrameSeqs == UNION { [1..n -> FrameChoices] : n \in 0..MaxFrames }

WellFormed(fr) == fr.magic = MAGIC /\ fr.ver = 1

\* offset on the wire of the first byte of frame k's header (k may be
\* Len(frs)+1: the end of the stream)
RECURSIVE FrameStart(_, _)
FrameStart(frs, k) ==
    IF k <= 1 THEN 0
    ELSE FrameStart(frs, k - 1) + Len(WireFrame(frs[k - 1]))

\* header and payload boundaries of the stream
Boundaries(frs) ==
    { FrameStart(frs, k) : k \in 1..(Len(frs) + 1) }
    \cup { FrameStart(frs, k) + Len(WireHeader(frs[k])) : k \in 1..Len(frs) }

\* where the peer may close the connection
Cuts(frs) ==
    { c \in 0..Len(WireStream(frs)) :
        \E b \in Boundaries(frs) : c - b \in (0 - CutSlack)..CutSlack }

--------------------------------------------------------------------------
(* depth_receiver.py: main() and recvn() *)

\* mutant of UnpackHdr: dtype and payload_len bound in the wrong order
UnpackHdr_LenFromDtype(b) ==
    LET u == unpack(HDR_FMT, b)
    IN [magic |-> u[1], ver |-> u[2], sensor_type |-> u[3],
        stream_id |-> u[4], frame_idx |-> u[5], ts_ns |-> u[6],
        w |-> u[7], h |-> u[8], dtype |-> u[10], payload_len |-> u[9]]

\* lines 46-47: the ten names bound by struct.unpack(HDR_FMT, hdr)
UnpackHdr(b) ==
    LET u == unpack(HDR_FMT, b)
    IN [magic |-> u[1], ver |-> u[2], sensor_type |-> u[3],
        stream_id |-> u[4], frame_idx |-> u[5], ts_ns |-> u[6],
        w |-> u[7], h |-> u[8], dtype |-> u[9], payload_len |-> u[10]]

\* mutant of FileName: the world-camera and IMU branches test each other's
\* sensor type
FileName_SwappedSinks(h) ==
    IF h.sensor_type = SENSOR_DEPTH
    THEN <<OUTDIR, "/", "depth", "_s", Dec(h.stream_id), "_",
           Fmt06d(h.frame_idx), "_", Dec(h.w), "x", Dec(h.h), "_",
           Dec(h.ts_ns), ".bin">>
    ELSE IF h.sensor_type = SENSOR_IMU
    THEN <<OUTDIR, "/", "worldcam", "_s", Dec(h.stream_id), "_",
           Fmt06d(h.frame_idx), "_", Dec(h.w), "x", Dec(h.h), "_",
           Dec(h.ts_ns), ".bin">>
    ELSE IF h.sensor_type = SENSOR_WORLDCAM
    THEN <<OUTDIR, "/", "imu", "_s", Dec(h.stream_id), "_",
           Fmt06d(h.frame_idx), "_", Dec(h.ts_ns), ".bin">>
    ELSE <<OUTDIR, "/", "unknown", Dec(h.sensor_type), "_s",
           Dec(h.stream_id), "_", Fmt06d(h.frame_idx), "_", Dec(h.ts_ns),
           ".bin">>

\* lines 57-76: the file name chosen by sensor type
FileName(h) ==
    IF h.sensor_type = SENSOR_DEPTH
    THEN <<OUTDIR, "/", "depth", "_s", Dec(h.stream_id), "_",
           Fmt06d(h.frame_idx), "_", Dec(h.w), "x", Dec(h.h), "_",
           Dec(h.ts_ns), ".bin">>
    ELSE IF h.sensor_type = SENSOR_WORLDCAM
    THEN <<OUTDIR, "/", "worldcam", "_s", Dec(h.stream_id), "_",
           Fmt06d(h.frame_idx), "_", Dec(h.w), "x", Dec(h.h), "_",
           Dec(h.ts_ns), ".bin">>
    ELSE IF h.sensor_type = SENSOR_IMU
    THEN <<OUTDIR, "/", "imu", "_s", Dec(h.stream_id), "_",
           Fmt06d(h.frame_idx), "_", Dec(h.ts_ns), ".bin">>
    ELSE <<OUTDIR, "/", "unknown", Dec(h.sensor_type), "_s",
           Dec(h.stream_id), "_", Fmt06d(h.frame_idx), "_", Dec(h.ts_ns),
           ".bin">>

\* line 27: what recvn raises when conn.recv returns b""
SocketClosed(b) == [type |-> "ConnectionError", msg |-> "socket closed"]

\* mutant of HeaderError: the version check left out
HeaderError_NoVersionCheck(h) ==
    IF h.magic # MAGIC THEN [type |-> "ValueError", msg |-> "bad magic"]
    ELSE NoError

\* lines 49-52: the header checks; NoError when both pass
HeaderError(h) ==
    IF h.magic # MAGIC THEN [type |-> "ValueError", msg |-> "bad magic"]
    ELSE IF h.ver # 1
    THEN [type |-> "ValueError", msg |-> "unsupported version"]
    ELSE NoError

\* mutant of ChunkSizes: conn.recv is asked for a chunk whatever recvn still
\* needs
ChunkSizes_NotCapped(n, avail) == { c \in 1..avail : c <= MaxChunk }

\* the sizes conn.recv(n) may return when avail bytes are still to come
ChunkSizes(n, avail) ==
    { c \in 1..Min(n, avail) : c <= MaxChunk \/ c = Min(n, avail) }

RecvStart ==
    /\ sent \in FrameSeqs
    /\ \E cut \in Cuts(sent) : wire = Take(WireStream(sent), cut)
    /\ rpos = 0
    /\ rstate = "header"
    /\ want = HDR_SIZE
    /\ buf = <<>>
    /\ hdr = NoHdr
    /\ hdrStart = 0
    /\ deliveries = <<>>
    /\ files = {}
    /\ error = NoError

\* recvn, line 25: conn.recv(n - len(buf)) returns a non-empty chunk
RecvChunk ==
    /\ rstate \in {"header", "payload"}
    /\ Len(buf) < want
    /\ rpos < Len(wire)
    /\ \E c \in ChunkSizes(want - Len(buf), Len(wire) - rpos) :
          /\ buf' = buf \o SubSeq(wire, rpos + 1, rpos + c)
          /\ rpos' = rpos + c
    /\ UNCHANGED <<sent, wire, rstate, want, hdr, hdrStart, deliveries,
                   files, error>>
    /\ UNCHANGED notRecvVars

\* recvn, lines 25-27: conn.recv returns b"" and recvn raises; the
\* exception leaves main()
RecvClosed ==
    /\ rstate \in {"header", "payload"}
    /\ Len(buf) < want
    /\ rpos = Len(wire)
    /\ rstate' = "failed"
    /\ error' = SocketClosed(buf)
    /\ UNCHANGED <<sent, wire, rpos, want, buf, hdr, hdrStart, deliveries,
                   files>>
    /\ UNCHANGED notRecvVars

\* main, lines 45-54: recvn returned the header; unpack, check, and enter
\* recvn(conn, payload_len)
HeaderRead ==
    /\ rstate = "header"
    /\ Len(buf) = want
    /\ LET h == UnpackHdr(buf)
       IN IF HeaderError(h) # NoError
          THEN /\ rstate' = "failed"
               /\ error' = HeaderError(h)
               /\ UNCHANGED <<want, buf, hdr>>
          ELSE /\ rstate' = "payload"
               /\ hdr' = h
               /\ want' = h.payload_len
               /\ buf' = <<>>
               /\ UNCHANGED error
    /\ UNCHANGED <<sent, wire, rpos, hdrStart, deliveries, files>>
    /\ UNCHANGED notRecvVars

\* main, lines 54-79 and back to 45: recvn returned the payload; route it,
\* write the file, and enter recvn(conn, HDR_SIZE)
PayloadRead ==
    /\ rstate = "payload"
    /\ Len(buf) = want
    /\ LET fname == FileName(hdr)
       IN /\ deliveries' = Append(deliveries, [name |-> fname, data |-> buf])
          /\ files' = { f \in files : f.name # fname }
                      \cup { [name |-> fname, data |-> buf] }
    /\ rstate' = "header"
    /\ want' = HDR_SIZE
    /\ buf' = <<>>
    /\ hdr' = NoHdr
    /\ hdrStart' = rpos
    /\ UNCHANGED <<sent, wire, rpos, error>>
    /\ UNCHANGED notRecvVars

\* the receiver is not running
RecvIdle ==
    /\ sent = <<>> /\ wire = <<>> /\ rpos = 0 /\ rstate = "off"
    /\ want = 0 /\ buf = <<>> /\ hdr = NoHdr /\ hdrStart = 0
    /\ deliveries = <<>> /\ files = {} /\ error = NoError

--------------------------------------------------------------------------
(* depth_decoder.py: Block *)

\* keys of BLOCK_NAMES
BlockTypes == {1, 2, 3, 4, 5}

\* payload bytes used by the model: byte i (from 0) is 7*i+1, all different
PayloadBytes(n) == [i \in 1..n |-> (7 * (i - 1) + 1) % 256]

MkBlock(t, w, h, s, bpp, n, p) ==
    [block_type |-> t, width |-> w, height |-> h, stride |-> s, bpp |-> bpp,
     nbytes |-> n, payload |-> p]

\* the Blocks decode() is tried on: every combination of the header fields
\* in range, with a payload of nbytes bytes (as read_block builds it) or one
\* byte short of that (a Block built by hand)
BlockInputs ==
    { MkBlock(t, w, h, s, bpp, n, PayloadBytes(Max(0, n - short))) :
        t \in BlockTypes,
        w \in (0 - 1)..MaxWidth,
        h \in (0 - 1)..MaxHeight,
        s \in {0 - 4} \cup 0..MaxStride,
        bpp \in {2, 4},
        n \in (0 - 1)..MaxBytes,
        short \in {0, 1} }

None == [kind |-> "empty"]
NotCalled == [kind |-> "none"]
Raise(type, msg) == [kind |-> "error", type |-> type, msg |-> msg]
Array(dtype, rows) == [kind |-> "array", dtype |-> dtype, rows |-> rows]

\* mutant of is_empty: "and" for "or"
is_empty_AllNonPositive(b) == b.nbytes <= 0 /\ b.width <= 0 /\ b.height <= 0

\* Block.is_empty, line 84
is_empty(b) == b.nbytes <= 0 \/ b.width <= 0 \/ b.height <= 0

\* mutant of StrideInvalid: "<" for "<="
StrideInvalid_ZeroAllowed(b) == b.stride < 0

\* line 96
StrideInvalid(b) == b.stride <= 0

\* lines 99-100
TooSmall(b) == b.nbytes < b.stride * b.height

\* lines 106-109
DTypeOf(b) == IF b.block_type = 3 THEN "uint32" ELSE "float32"

\* np.dtype(dtype).itemsize, line 113
ItemSize(dtype) == 4

\* np.frombuffer(raw, dtype) for Len(raw) a multiple of the item size: the
\* elements in order, each the dtype with its four bytes
frombuffer(raw, dtype) ==
    [k \in 1..(Len(raw) \div ItemSize(dtype)) |->
        <<dtype, SubSeq(raw, ItemSize(dtype) * (k - 1) + 1,
                        ItemSize(dtype) * k)>>]

\* Block.decode, lines 86-127
decode(b) ==
    IF is_empty(b) THEN None
    ELSE IF StrideInvalid(b) THEN Raise("ValueError", "Invalid stride")
    ELSE IF TooSmall(b) THEN Raise("ValueError", "too small")
    ELSE
      LET dtype == DTypeOf(b)
          elem_size == ItemSize(dtype)
      IN
      IF b.stride % elem_size # 0
      THEN Raise("ValueError", "not divisible by element size")
      ELSE
        LET elems_per_row == b.stride \div elem_size
            raw == Take(b.payload, b.stride * b.height)
        IN
        IF Len(raw) % elem_size # 0
        THEN Raise("ValueError", "buffer size must be a multiple of element size")
        ELSE
          LET full == frombuffer(raw, dtype)
          IN
          IF Len(full) # b.height * elems_per_row
          THEN Raise("ValueError", "cannot reshape array")
          ELSE Array(dtype,
                 [r \in 1..b.height |->
                    Take(SubSeq(full, (r - 1) * elems_per_row + 1,
                                r * elems_per_row), b.width)])

BlockStart ==
    /\ blk \in BlockInputs
    /\ bstate = "ready"
    /\ bresult = NotCalled

\* a caller calls blk.decode()
CallDecode ==
    /\ bstate = "ready"
    /\ bresult' = decode(blk)
    /\ bstate' = "done"
    /\ UNCHANGED blk
    /\ UNCHANGED notBlockVars

BlockIdle ==
    /\ blk = MkBlock(0, 0, 0, 0, 0, 0, <<>>)
    /\ bstate = "off"
    /\ bresult = NotCalled
--------------------------------------------------------------------------
(* depth_decoder.py: the container as the writer produces it *)

\* b"DEPTHRAW"
DEPTH_MAGIC == <<68, 69, 80, 84, 72, 82, 65, 87>>
SUPPORTED_VERSION == 1

\* b"HEADPOSE", the magic of another kind of container
HEADPOSE_MAGIC == <<72, 69, 65, 68, 80, 79, 83, 69>>

\* "- 8 bytes: ASCII magic, - int32: version" (docstring lines 6-7)
ContainerHeader(magic, version) == magic \o ToLE(version, 4)

\* one block slot, docstring lines 13-19: type, width, height, strideBytes,
\* bytesPerPixel, nbytes, then the payload
BlockBytes(b) ==
    <<b.block_type>> \o ToLE(b.width, 4) \o ToLE(b.height, 4)
    \o ToLE(b.stride, 4) \o ToLE(b.bpp, 4) \o ToLE(b.nbytes, 4) \o b.payload

RECURSIVE SlotsBytes(_)
SlotsBytes(slots) ==
    IF slots = <<>> THEN <<>>
    ELSE BlockBytes(slots[1]) \o SlotsBytes(Tail(slots))

\* one frame, docstring lines 9-11: frame_index, captureTimeNs, five blocks
DepthFrameBytes(fr) ==
    ToLE(fr.frame_index, 4) \o ToLE(fr.capture_time_ns, 8)
    \o SlotsBytes(fr.slots)

RECURSIVE DepthFramesBytes(_)
DepthFramesBytes(frs) ==
    IF frs = <<>> THEN <<>>
    ELSE DepthFrameBytes(frs[1]) \o DepthFramesBytes(Tail(frs))

EmptySlot(t) == MkBlock(t, 0, 0, 0, 0, 0, <<>>)

\* the frames a container may hold: the 2x2 depth image of the end-to-end
\* example with four empty blocks; a frame with a negative and a small byte
\* count and a type byte outside 1..5; a frame whose slots repeat a block
\* type
DepthFrameChoices ==
    { [frame_index |-> 0, capture_time_ns |-> 1000,
       slots |-> << MkBlock(1, 2, 2, 8, 4, 16, PayloadBytes(16)),
                    EmptySlot(2), EmptySlot(3), EmptySlot(4), EmptySlot(5) >>],
      [frame_index |-> 1, capture_time_ns |-> 0 - 5,
       slots |-> << MkBlock(1, 0, 0, 0, 4, 0 - 1, <<>>),
                    MkBlock(2, 1, 1, 4, 4, 3, <<9, 8, 7>>),
                    MkBlock(3, 1, 1, 4, 4, 4, <<1, 0, 0, 0>>),
                    EmptySlot(4), EmptySlot(9) >>],
      [frame_index |-> 70000, capture_time_ns |-> 2000,
       slots |-> << MkBlock(5, 1, 1, 4, 4, 4, <<1, 1, 1, 1>>),
                    MkBlock(4, 0, 0, 0, 0, 0, <<>>),
                    MkBlock(5, 1, 1, 4, 4, 4, <<2, 2, 2, 2>>),
                    EmptySlot(2),
                    MkBlock(1, 1, 1, 4, 4, 4, <<3, 3, 3, 3>>) >>] }

DepthFrameSeqs ==
    UNION { [1..n -> DepthFrameChoices] : n \in 0..MaxDepthFrames }

\* the container headers tried: the valid one, a foreign magic and an
\* unsupported version
DepthHeaderChoices ==
    { ContainerHeader(DEPTH_MAGIC, 1),
      ContainerHeader(HEADPOSE_MAGIC, 1),
      ContainerHeader(DEPTH_MAGIC, 2) }

\* offset in the container of the first byte after frame k (k = 0: after
\* the 12-byte header)
RECURSIVE DepthFrameEnd(_, _)
DepthFrameEnd(frs, k) ==
    IF k = 0 THEN 12
    ELSE DepthFrameEnd(frs, k - 1) + Len(DepthFrameBytes(frs[k]))

--------------------------------------------------------------------------
(* depth_decoder.py: read_exact, read_header, read_block, iter_frames *)

\* mutant of ShortRead: only an empty read counts as the end of the file
ShortRead_OnlyEmpty(b, n) == Len(b) = 0

\* line 148
ShortRead(b, n) == Len(b) # n

\* read_exact(f, n) with f at pos: the bytes read, the new position, and
\* whether EOFError is raised (lines 147-150)
read_exact(f, pos, n) ==
    LET b == SubSeq(f, pos + 1, Min(pos + n, Len(f)))
    IN [data |-> b, pos |-> pos + Len(b), eof |-> ShortRead(b, n)]

\* outcomes of a reading step
Ok(pos, val) == [st |-> "ok", pos |-> pos, val |-> val]
Eof(pos) == [st |-> "EOFError", pos |-> pos, val |-> <<>>]
Fail(st, pos) == [st |-> st, pos |-> pos, val |-> <<>>]

\* struct.unpack raises struct.error unless the buffer has the exact size
UnpackFails(fmt, b) == Len(b) # calcsize(fmt)

\* mutant of read_header: a file that ends inside the header reads as a
\* valid header
read_header_ShortAccepted(f, pos) ==
    LET r1 == read_exact(f, pos, 8)
        r2 == read_exact(f, r1.pos, 4)
    IN IF ~r1.eof /\ r1.data # DEPTH_MAGIC THEN Fail("ValueError", r1.pos)
       ELSE IF ~r2.eof
               /\ unpack(<< <<"i", 1>> >>, r2.data)[1] # SUPPORTED_VERSION
       THEN Fail("ValueError", r2.pos)
       ELSE Ok(r2.pos, SUPPORTED_VERSION)

\* read_header, lines 153-160
read_header(f, pos) ==
    LET r1 == read_exact(f, pos, 8)
        r2 == read_exact(f, r1.pos, 4)
        version == unpack(<< <<"i", 1>> >>, r2.data)[1]
    IN IF r1.eof THEN Eof(r1.pos)
       ELSE IF r1.data # DEPTH_MAGIC THEN Fail("ValueError", r1.pos)
       ELSE IF r2.eof THEN Eof(r2.pos)
       ELSE IF UnpackFails(<< <<"i", 1>> >>, r2.data)
       THEN Fail("struct.error", r2.pos)
       ELSE IF version # SUPPORTED_VERSION THEN Fail("ValueError", r2.pos)
       ELSE Ok(r2.pos, version)

\* mutant of read_block: the read position moves by the signed byte count
read_block_SignedAdvance(f, pos) ==
    LET r1 == read_exact(f, pos, 1)
        r2 == read_exact(f, r1.pos, 20)
        m == unpack(<< <<"i", 1>>, <<"i", 1>>, <<"i", 1>>, <<"i", 1>>,
                       <<"i", 1>> >>, r2.data)
        nbytes == m[5]
        r3 == IF nbytes > 0 THEN read_exact(f, r2.pos, nbytes)
              ELSE [data |-> <<>>, pos |-> r2.pos + nbytes, eof |-> FALSE]
    IN IF r1.eof THEN Eof(r1.pos)
       ELSE IF r2.eof THEN Eof(r2.pos)
       ELSE IF r3.eof THEN Eof(r3.pos)
       ELSE Ok(r3.pos,
               MkBlock(unpack(<< <<"B", 1>> >>, r1.data)[1],
                       m[1], m[2], m[3], m[4], nbytes, r3.data))

\* read_block, lines 163-167
read_block(f, pos) ==
    LET r1 == read_exact(f, pos, 1)
        r2 == read_exact(f, r1.pos, 20)
        m == unpack(<< <<"i", 1>>, <<"i", 1>>, <<"i", 1>>, <<"i", 1>>,
                       <<"i", 1>> >>, r2.data)
        nbytes == m[5]
        r3 == IF nbytes > 0 THEN read_exact(f, r2.pos, nbytes)
              ELSE [data |-> <<>>, pos |-> r2.pos, eof |-> FALSE]
    IN IF r1.eof THEN Eof(r1.pos)
       ELSE IF UnpackFails(<< <<"B", 1>> >>, r1.data)
       THEN Fail("struct.error", r1.pos)
       ELSE IF r2.eof THEN Eof(r2.pos)
       ELSE IF UnpackFails(<< <<"i", 1>>, <<"i", 1>>, <<"i", 1>>, <<"i", 1>>,
                              <<"i", 1>> >>, r2.data)
       THEN Fail("struct.error", r2.pos)
       ELSE IF r3.eof THEN Eof(r3.pos)
       ELSE Ok(r3.pos,
               MkBlock(unpack(<< <<"B", 1>> >>, r1.data)[1],
                       m[1], m[2], m[3], m[4], nbytes, r3.data))

\* mutant of DictSet: the first block read for a type is kept
DictSet_KeepFirst(d, k, v) ==
    [x \in (DOMAIN d) \cup {k} |-> IF x \in DOMAIN d THEN d[x] ELSE v]

\* blocks[blk.block_type] = blk, line 184
DictSet(d, k, v) == [x \in (DOMAIN d) \cup {k} |-> IF x = k THEN v ELSE d[x]]

EmptyDict == [x \in {} |-> 0]

NoFrame == [frame_index |-> 0, capture_time_ns |-> 0, blocks |-> EmptyDict,
            nslots |-> 0]

\* Frame(frame_index, capture_time_ns, blocks), line 186
Frame(cur) == [frame_index |-> cur.frame_index,
               capture_time_ns |-> cur.capture_time_ns,
               blocks |-> cur.blocks]

\* Frame.get, lines 136-137: self.blocks.get(block_type)
get(frame, block_type) ==
    IF block_type \in DOMAIN frame.blocks THEN frame.blocks[block_type]
    ELSE None

\* lines 177-178: the frame prefix, "<I" then "<q"
read_prefix(f, pos) ==
    LET r1 == read_exact(f, pos, 4)
        r2 == read_exact(f, r1.pos, 8)
    IN IF r1.eof THEN Eof(r1.pos)
       ELSE IF UnpackFails(<< <<"I", 1>> >>, r1.data)
       THEN Fail("struct.error", r1.pos)
       ELSE IF r2.eof THEN Eof(r2.pos)
       ELSE IF UnpackFails(<< <<"q", 1>> >>, r2.data)
       THEN Fail("struct.error", r2.pos)
       ELSE Ok(r2.pos,
               [frame_index |-> unpack(<< <<"I", 1>> >>, r1.data)[1],
                capture_time_ns |-> unpack(<< <<"q", 1>> >>, r2.data)[1],
                blocks |-> EmptyDict, nslots |-> 0])

\* the container on disk: a valid header and the frames, cut anywhere (a
\* writer that stopped), or the frames under a header of another kind or
\* version
IterStart ==
    /\ written \in DepthFrameSeqs
    /\ \/ \E cut \in 0..(12 + Len(DepthFramesBytes(written))) :
            dfile = Take(ContainerHeader(DEPTH_MAGIC, 1)
                         \o DepthFramesBytes(written), cut)
       \/ \E h \in DepthHeaderChoices :
            dfile = h \o DepthFramesBytes(written)
    /\ dpos = 0
    /\ dstate = "start"
    /\ dcur = NoFrame
    /\ yielded = <<>>
    /\ derror = NoError

\* how a reading step that did not succeed ends the generator: EOFError is
\* caught at line 188 and ends the iteration, anything else escapes
StopOn(r) ==
    /\ dpos' = r.pos
    /\ dcur' = NoFrame
    /\ IF r.st = "EOFError"
       THEN dstate' = "ended" /\ UNCHANGED derror
       ELSE dstate' = "failed" /\ derror' = [type |-> r.st, msg |-> "frame"]
    /\ UNCHANGED yielded

\* lines 171-172: open the file and read the container header; its
\* exceptions are raised outside the try and escape
OpenContainer ==
    /\ dstate = "start"
    /\ LET h == read_header(dfile, dpos)
       IN /\ dpos' = h.pos
          /\ IF h.st = "ok"
             THEN dstate' = "prefix" /\ UNCHANGED derror
             ELSE dstate' = "failed"
                  /\ derror' = [type |-> h.st, msg |-> "header"]
    /\ UNCHANGED <<written, dfile, dcur, yielded>>
    /\ UNCHANGED notIterVars

\* lines 177-180: read frame_index and capture_time_ns, start an empty dict
ReadPrefix ==
    /\ dstate = "prefix"
    /\ LET r == read_prefix(dfile, dpos)
       IN IF r.st = "ok"
          THEN /\ dpos' = r.pos
               /\ dcur' = r.val
               /\ dstate' = "slots"
               /\ UNCHANGED <<yielded, derror>>
          ELSE StopOn(r)
    /\ UNCHANGED <<written, dfile>>
    /\ UNCHANGED notIterVars

\* lines 182-184: one iteration of "for _i in range(5)"
ReadSlot ==
    /\ dstate = "slots"
    /\ dcur.nslots < 5
    /\ LET r == read_block(dfile, dpos)
       IN IF r.st = "ok"
          THEN /\ dpos' = r.pos
               /\ dcur' = [dcur EXCEPT
                             !.blocks = DictSet(@, r.val.block_type, r.val),
                             !.nslots = @ + 1]
               /\ UNCHANGED <<dstate, yielded, derror>>
          ELSE StopOn(r)
    /\ UNCHANGED <<written, dfile>>
    /\ UNCHANGED notIterVars

\* line 186: yield Frame(...), then back to the top of the loop
YieldFrame ==
    /\ dstate = "slots"
    /\ dcur.nslots = 5
    /\ yielded' = Append(yielded, Frame(dcur))
    /\ dcur' = NoFrame
    /\ dstate' = "prefix"
    /\ UNCHANGED <<written, dfile, dpos, derror>>
    /\ UNCHANGED notIterVars

IterIdle ==
    /\ written = <<>> /\ dfile = <<>> /\ dpos = 0 /\ dstate = "off"
    /\ dcur = NoFrame /\ yielded = <<>> /\ derror = NoError

--------------------------------------------------------------------------
(* ml2_read_cvpose.py: the container and read_cvpose *)

\* b"CVPOSE\x00\x00"
CVPOSE_MAGIC == <<67, 86, 80, 79, 83, 69, 0, 0>>

\* REC = struct.Struct("<IfIq i ffff fff"), line 4
REC == << <<"I", 1>>, <<"f", 1>>, <<"I", 1>>, <<"q", 1>>, <<"i", 1>>,
          <<"f", 1>>, <<"f", 1>>, <<"f", 1>>, <<"f", 1>>,
          <<"f", 1>>, <<"f", 1>>, <<"f", 1>> >>

\* the IEEE bytes of the float 1.0 and of small floats told apart by k
OneF == <<0, 0, 128, 63>>
FloatF(k) == <<k, 0, 0, 64>>

\* the k-th record a writer appends: recordIndex, unityTime, rgbFrameIndex,
\* tsNs, resultCode, quaternion, position
CvRec(k) ==
    [record_index |-> k, unity_time |-> FloatF(k), rgb_frame_index |-> 10 + k,
     ts |-> 1000 * k, result |-> 0 - k,
     quat |-> <<FloatF(k), FloatF(k + 1), FloatF(k + 2), OneF>>,
     pos |-> <<FloatF(k + 3), FloatF(k + 4), FloatF(k + 5)>>]

\* the 52 bytes of a record as written
CvRecBytes(r) ==
    ToLE(r.record_index, 4) \o r.unity_time \o ToLE(r.rgb_frame_index, 4)
    \o ToLE(r.ts, 8) \o ToLE(r.result, 4)
    \o r.quat[1] \o r.quat[2] \o r.quat[3] \o r.quat[4]
    \o r.pos[1] \o r.pos[2] \o r.pos[3]

RECURSIVE CvRecsBytes(_)
CvRecsBytes(recs) ==
    IF recs = <<>> THEN <<>> ELSE CvRecBytes(recs[1]) \o CvRecsBytes(Tail(recs))

\* what lines 22-25 keep of an unpacked record r: r[3], r[4], r[5:9], r[9:12]
CvRow(r) ==
    [ts |-> r[4], result |-> r[5],
     quat |-> <<r[6], r[7], r[8], r[9]>>,
     pos |-> <<r[10], r[11], r[12]>>]

\* the container on disk: header and records, cut anywhere
CvStart ==
    /\ \E n \in 0..MaxCvRecords : cwritten = [k \in 1..n |-> CvRec(k)]
    /\ \E m \in {CVPOSE_MAGIC, HEADPOSE_MAGIC} :
         \E cut \in 0..(12 + Len(CvRecsBytes(cwritten))) :
            cfile = Take(ContainerHeader(m, 2) \o CvRecsBytes(cwritten), cut)
    /\ cpos = 0
    /\ cstate = "start"
    /\ crows = <<>>
    /\ cerror = NoError

\* f.read(n) with f at pos
FileRead(f, pos, n) == SubSeq(f, pos + 1, Min(pos + n, Len(f)))

\* line 18: "if not buf"
NotBuf(b) == Len(b) = 0

\* lines 7-14: open, read the magic (unchecked) and unpack the version
CvOpen ==
    /\ cstate = "start"
    /\ LET magic == FileRead(cfile, cpos, 8)
           verb == FileRead(cfile, cpos + Len(magic), 4)
       IN /\ cpos' = cpos + Len(magic) + Len(verb)
          /\ IF UnpackFails(<< <<"i", 1>> >>, verb)
             THEN /\ cstate' = "failed"
                  /\ cerror' = [type |-> "struct.error", msg |-> "version"]
             ELSE /\ cstate' = "loop"
                  /\ UNCHANGED cerror
    /\ UNCHANGED <<cwritten, cfile, crows>>
    /\ UNCHANGED notCvVars

\* lines 17-25, and line 27 after the break: one pass of "while True"
CvRecord ==
    /\ cstate = "loop"
    /\ LET b == FileRead(cfile, cpos, calcsize(REC))
       IN /\ cpos' = cpos + Len(b)
          /\ IF NotBuf(b)
             THEN /\ cstate' = "returned"
                  /\ UNCHANGED <<crows, cerror>>
             ELSE IF UnpackFails(REC, b)
             THEN /\ cstate' = "failed"
                  /\ cerror' = [type |-> "struct.error", msg |-> "record"]
                  /\ UNCHANGED crows
             ELSE /\ crows' = Append(crows, CvRow(unpack(REC, b)))
                  /\ UNCHANGED <<cstate, cerror>>
    /\ UNCHANGED <<cwritten, cfile>>
    /\ UNCHANGED notCvVars

CvIdle ==
    /\ cwritten = <<>> /\ cfile = <<>> /\ cpos = 0 /\ cstate = "off"
    /\ crows = <<>> /\ cerror = NoError

--------------------------------------------------------------------------
(* ml2_read_headpose.py and ml2_correctness_report.py: read_headpose *)

\* REC = struct.Struct("<Ifqiffff fffIfIBQ"), ml2_read_headpose.py line 16;
\* HEAD_REC_V2 = struct.Struct("<Ifqi4f3fIfIBQ") of the report is the same
\* sequence of fields
HEAD_REC == << <<"I", 1>>, <<"f", 1>>, <<"q", 1>>, <<"i", 1>>,
               <<"f", 1>>, <<"f", 1>>, <<"f", 1>>, <<"f", 1>>,
               <<"f", 1>>, <<"f", 1>>, <<"f", 1>>,
               <<"I", 1>>, <<"f", 1>>, <<"I", 1>>, <<"B", 1>>, <<"Q", 1>> >>

HEAD_REC_V2 == HEAD_REC

\* a record as the writer holds it (comment lines 4-15): frameIndex,
\* unityTime, timestampNs, resultCode, quaternion, position, status,
\* confidence, errorFlags, hasMapEvent, mapEventsMask
HeadRec(k) ==
    [frame_index |-> 300 * k, unity_time |-> FloatF(k),
     ts |-> 70000 * k - 100000, result |-> 2 - k,
     quat |-> <<FloatF(k), FloatF(k + 1), FloatF(k + 2), OneF>>,
     pos |-> <<FloatF(k + 3), FloatF(k + 4), FloatF(k + 5)>>,
     status |-> 65536 * k, confidence |-> FloatF(9 * k),
     error_flags |-> k - 1, has_map_event |-> k % 2,
     map_events_mask |-> 1000000 * (k - 1)]

HeadRecChoices == { HeadRec(1), HeadRec(2) }

HeadRecSeqs == UNION { [1..n -> HeadRecChoices] : n \in 0..MaxHeadRecords }

\* the 69 bytes of a record as written
HeadRecBytes(r) ==
    ToLE(r.frame_index, 4) \o r.unity_time \o ToLE(r.ts, 8)
    \o ToLE(r.result, 4)
    \o r.quat[1] \o r.quat[2] \o r.quat[3] \o r.quat[4]
    \o r.pos[1] \o r.pos[2] \o r.pos[3]
    \o ToLE(r.status, 4) \o r.confidence \o ToLE(r.error_flags, 4)
    \o <<r.has_map_event>> \o ToLE(r.map_events_mask, 8)

RECURSIVE HeadRecsBytes(_)
HeadRecsBytes(recs) ==
    IF recs = <<>> THEN <<>>
    ELSE HeadRecBytes(recs[1]) \o HeadRecsBytes(Tail(recs))

\* the container headers tried besides the valid one: a foreign magic and
\* an unsupported version
HeadHeaderChoices ==
    { ContainerHeader(CVPOSE_MAGIC, 2), ContainerHeader(HEADPOSE_MAGIC, 1) }

\* the container on disk and the reader that is run on it
HeadStart ==
    /\ hreader \in {"ml2_read_headpose", "report"}
    /\ hwritten \in HeadRecSeqs
    /\ \/ \E cut \in 0..(12 + Len(HeadRecsBytes(hwritten))) :
            hfile = Take(ContainerHeader(HEADPOSE_MAGIC, 2)
                         \o HeadRecsBytes(hwritten), cut)
       \/ \E h \in HeadHeaderChoices : hfile = h \o HeadRecsBytes(hwritten)
    /\ hpos = 0
    /\ hstate = "start"
    /\ hrows = <<>>
    /\ herror = NoError

\* ml2_read_headpose.py lines 48-56: what is kept of an unpacked record r
\* (r[0], the frame index, and r[1], the unity time, are dropped)
HeadRow(r) ==
    [ts |-> r[3], result |-> r[4],
     quat |-> <<r[5], r[6], r[7], r[8]>>,
     pos |-> <<r[9], r[10], r[11]>>,
     status |-> r[12], conf |-> r[13], err |-> r[14],
     has_evt |-> r[15], mapmask |-> r[16]]

\* mutant of PartialTail: a partial tail record is unpacked
PartialTail_Unpacked(b, n) == FALSE

\* ml2_read_headpose.py line 42
PartialTail(b, n) == Len(b) # n

\* ml2_read_headpose.py lines 19-26: magic and version
HeadOpen ==
    /\ hreader = "ml2_read_headpose"
    /\ hstate = "start"
    /\ LET magic == FileRead(hfile, hpos, 8)
           verb == FileRead(hfile, hpos + Len(magic), 4)
       IN IF magic # HEADPOSE_MAGIC
          THEN /\ hpos' = hpos + Len(magic)
               /\ hstate' = "failed"
               /\ herror' = [type |-> "ValueError", msg |-> "Bad magic"]
          ELSE IF UnpackFails(<< <<"i", 1>> >>, verb)
          THEN /\ hpos' = hpos + Len(magic) + Len(verb)
               /\ hstate' = "failed"
               /\ herror' = [type |-> "struct.error", msg |-> "version"]
          ELSE IF unpack(<< <<"i", 1>> >>, verb)[1] # 2
          THEN /\ hpos' = hpos + Len(magic) + Len(verb)
               /\ hstate' = "failed"
               /\ herror' = [type |-> "ValueError",
                             msg |-> "Unsupported version"]
          ELSE /\ hpos' = hpos + Len(magic) + Len(verb)
               /\ hstate' = "loop"
               /\ UNCHANGED herror
    /\ UNCHANGED <<hreader, hwritten, hfile, hrows>>
    /\ UNCHANGED notHeadVars

\* ml2_read_headpose.py lines 38-56, and lines 58-68 after a break: one
\* pass of "while True"
HeadRecord ==
    /\ hreader = "ml2_read_headpose"
    /\ hstate = "loop"
    /\ LET b == FileRead(hfile, hpos, calcsize(HEAD_REC))
       IN /\ hpos' = hpos + Len(b)
          /\ IF Len(b) = 0
             THEN /\ hstate' = "returned"
                  /\ UNCHANGED <<hrows, herror>>
             ELSE IF PartialTail(b, calcsize(HEAD_REC))
             THEN /\ hstate' = "returned"
                  /\ UNCHANGED <<hrows, herror>>
             ELSE IF UnpackFails(HEAD_REC, b)
             THEN /\ hstate' = "failed"
                  /\ herror' = [type |-> "struct.error", msg |-> "record"]
                  /\ UNCHANGED hrows
             ELSE /\ hrows' = Append(hrows, HeadRow(unpack(HEAD_REC, b)))
                  /\ UNCHANGED <<hstate, herror>>
    /\ UNCHANGED <<hreader, hwritten, hfile>>
    /\ UNCHANGED notHeadVars

\* ml2_correctness_report.py lines 35-39: read_exact returns None (here the
\* flag none) for a short read
report_read_exact(f, pos, n) ==
    LET b == FileRead(f, pos, n)
    IN [data |-> b, pos |-> pos + Len(b), none |-> Len(b) # n]

\* mutant of RepHeadRow: status and err are taken from each other's field
RepHeadRow_SwappedStatusErr(r) ==
    [index |-> r[1], unity_t |-> r[2], ts |-> r[3], rc |-> r[4],
     q |-> <<r[5], r[6], r[7], r[8]>>,
     p |-> <<r[9], r[10], r[11]>>,
     status |-> r[14], conf |-> r[13], err |-> r[12],
     has_evt |-> r[15], evt_mask |-> r[16]]

\* ml2_correctness_report.py lines 230-248: the columns of the returned
\* dict, row by row
RepHeadRow(r) ==
    [index |-> r[1], unity_t |-> r[2], ts |-> r[3], rc |-> r[4],
     q |-> <<r[5], r[6], r[7], r[8]>>,
     p |-> <<r[9], r[10], r[11]>>,
     status |-> r[12], conf |-> r[13], err |-> r[14],
     has_evt |-> r[15], evt_mask |-> r[16]]

\* ml2_correctness_report.py lines 209-218: magic and version
RepHeadOpen ==
    /\ hreader = "report"
    /\ hstate = "start"
    /\ LET m == report_read_exact(hfile, hpos, 8)
           v == report_read_exact(hfile, m.pos, 4)
       IN IF m.none \/ m.data # HEADPOSE_MAGIC
          THEN /\ hpos' = m.pos
               /\ hstate' = "failed"
               /\ herror' = [type |-> "ValueError", msg |-> "Not HEADPOSE"]
          ELSE IF v.none
          THEN /\ hpos' = v.pos
               /\ hstate' = "failed"
               /\ herror' = [type |-> "ValueError",
                             msg |-> "HEADPOSE missing version"]
          ELSE IF unpack(<< <<"i", 1>> >>, v.data)[1] # 2
          THEN /\ hpos' = v.pos
               /\ hstate' = "failed"
               /\ herror' = [type |-> "ValueError",
                             msg |-> "Unsupported HEADPOSE version"]
          ELSE /\ hpos' = v.pos
               /\ hstate' = "loop"
               /\ UNCHANGED herror
    /\ UNCHANGED <<hreader, hwritten, hfile, hrows>>
    /\ UNCHANGED notHeadVars

\* ml2_correctness_report.py lines 221-225: one pass of "while True"
RepHeadRecord ==
    /\ hreader = "report"
    /\ hstate = "loop"
    /\ LET b == report_read_exact(hfile, hpos, calcsize(HEAD_REC_V2))
       IN /\ hpos' = b.pos
          /\ IF b.none
             THEN /\ hstate' = "after"
                  /\ UNCHANGED hrows
             ELSE /\ hrows' = Append(hrows,
                                     RepHeadRow(unpack(HEAD_REC_V2, b.data)))
                  /\ UNCHANGED hstate
    /\ UNCHANGED <<hreader, hwritten, hfile, herror>>
    /\ UNCHANGED notHeadVars

\* ml2_correctness_report.py line 227: "if not frames"
NoFrames(frames) == Len(frames) = 0

\* ml2_correctness_report.py lines 227-248: after the loop
RepHeadReturn ==
    /\ hreader = "report"
    /\ hstate = "after"
    /\ IF NoFrames(hrows)
       THEN /\ hstate' = "failed"
            /\ herror' = [type |-> "ValueError", msg |-> "No headpose records"]
       ELSE /\ hstate' = "returned"
            /\ UNCHANGED herror
    /\ UNCHANGED <<hreader, hwritten, hfile, hpos, hrows>>
    /\ UNCHANGED notHeadVars

HeadIdle ==
    /\ hreader = "off" /\ hwritten = <<>> /\ hfile = <<>> /\ hpos = 0
    /\ hstate = "off" /\ hrows = <<>> /\ herror = NoError

--------------------------------------------------------------------------
(* ml2_correctness_report.py: read_cvpose, the CVPOSE version resolver *)

\* CV_V1 = struct.Struct("<Ifqi4f3f"), line 95
CV_V1 == << <<"I", 1>>, <<"f", 1>>, <<"q", 1>>, <<"i", 1>>,
            <<"f", 1>>, <<"f", 1>>, <<"f", 1>>, <<"f", 1>>,
            <<"f", 1>>, <<"f", 1>>, <<"f", 1>> >>

\* CV_V2 = struct.Struct("<IfIqi4f3f"), line 96
CV_V2 == << <<"I", 1>>, <<"f", 1>>, <<"I", 1>>, <<"q", 1>>, <<"i", 1>>,
            <<"f", 1>>, <<"f", 1>>, <<"f", 1>>, <<"f", 1>>,
            <<"f", 1>>, <<"f", 1>>, <<"f", 1>> >>

\* the 48 bytes of a record in the v1 layout (comment lines 90-91): the
\* record without its rgbFrameIndex
CvRecBytesV1(r) ==
    ToLE(r.record_index, 4) \o r.unity_time
    \o ToLE(r.ts, 8) \o ToLE(r.result, 4)
    \o r.quat[1] \o r.quat[2] \o r.quat[3] \o r.quat[4]
    \o r.pos[1] \o r.pos[2] \o r.pos[3]

RECURSIVE CvRecsBytesV1(_)
CvRecsBytesV1(recs) ==
    IF recs = <<>> THEN <<>>
    ELSE CvRecBytesV1(recs[1]) \o CvRecsBytesV1(Tail(recs))

\* the records a writer appends
ResWritten == [k \in 1..MaxResRecords |-> CvRec(k)]

\* the record bytes of a container written in a layout
ResRecordBytes(layout) ==
    IF layout = "v1" THEN CvRecsBytesV1(ResWritten)
    ELSE CvRecsBytes(ResWritten)

\* the version numbers a header may declare: the two known ones and others
DeclaredVersions == {0, 1, 2, 3}

NoRows == [none |-> TRUE, rows |-> <<>>]
NoResult == [mode |-> "none"]

\* the container on disk: a CVPOSE header declaring any version, then the
\* records in either layout, cut anywhere; or the records under the magic
\* of another kind
ResStart ==
    /\ vlayout \in {"v1", "v2"}
    /\ \/ \E d \in DeclaredVersions :
            \E cut \in 0..(12 + Len(ResRecordBytes(vlayout))) :
               vfile = Take(ContainerHeader(CVPOSE_MAGIC, d)
                            \o ResRecordBytes(vlayout), cut)
       \/ vfile = ContainerHeader(HEADPOSE_MAGIC, 2) \o ResRecordBytes(vlayout)
    /\ vstate = "start"
    /\ vver = 0
    /\ vdata = <<>>
    /\ vrows = NoRows
    /\ vmode = "none"
    /\ vresult = NoResult
    /\ verror = NoError

\* lines 99-110: magic, version, data = f.read()
ResOpen ==
    /\ vstate = "start"
    /\ LET m == report_read_exact(vfile, 0, 8)
           v == report_read_exact(vfile, m.pos, 4)
       IN IF m.none \/ m.data # CVPOSE_MAGIC
          THEN /\ vstate' = "failed"
               /\ verror' = [type |-> "ValueError", msg |-> "Not CVPOSE"]
               /\ UNCHANGED <<vver, vdata>>
          ELSE IF v.none
          THEN /\ vstate' = "failed"
               /\ verror' = [type |-> "ValueError",
                             msg |-> "CVPOSE missing version"]
               /\ UNCHANGED <<vver, vdata>>
          ELSE /\ vstate' = "resolve"
               /\ vver' = unpack(<< <<"i", 1>> >>, v.data)[1]
               /\ vdata' = Drop(vfile, v.pos)
               /\ UNCHANGED verror
    /\ UNCHANGED <<vlayout, vfile, vrows, vmode, vresult>>
    /\ UNCHANGED notResVars

\* lines 122-130: the rows of the n whole records
parse_rows(fmt, data, n) ==
    [i \in 1..n |->
        unpack(fmt, SubSeq(data, (i - 1) * calcsize(fmt) + 1,
                           i * calcsize(fmt)))]

\* parse_with, lines 113-130: None when no whole record fits
parse_with(fmt, data) ==
    IF Len(data) \div calcsize(fmt) <= 0
    THEN NoRows
    ELSE [none |-> FALSE,
          rows |-> parse_rows(fmt, data, Len(data) \div calcsize(fmt))]

\* truth value of None or a list
Truthy(r) == ~r.none /\ Len(r.rows) > 0

\* lines 143 and 153: r2 and (not r1 or len(r2) >= len(r1))
PreferV2(r2, r1) ==
    Truthy(r2) /\ (~Truthy(r1) \/ Len(r2.rows) >= Len(r1.rows))

\* lines 135-137: declared version 2, the v2 layout only
ResStrict ==
    /\ vstate = "resolve"
    /\ vver = 2
    /\ vrows' = parse_with(CV_V2, vdata)
    /\ vmode' = "v2"
    /\ vstate' = "rows"
    /\ UNCHANGED <<vlayout, vfile, vver, vdata, vresult, verror>>
    /\ UNCHANGED notResVars

\* lines 138-148: declared version 1, which may still hold v2 records
ResDeclaredV1 ==
    /\ vstate = "resolve"
    /\ vver = 1
    /\ LET r2 == parse_with(CV_V2, vdata)
           r1 == parse_with(CV_V1, vdata)
       IN IF PreferV2(r2, r1)
          THEN vrows' = r2 /\ vmode' = "v2(prob)"
          ELSE vrows' = r1 /\ vmode' = "v1"
    /\ vstate' = "rows"
    /\ UNCHANGED <<vlayout, vfile, vver, vdata, vresult, verror>>
    /\ UNCHANGED notResVars

\* lines 149-154: any other declared version, probe
ResProbe ==
    /\ vstate = "resolve"
    /\ vver # 2 /\ vver # 1
    /\ LET r2 == parse_with(CV_V2, vdata)
           r1 == parse_with(CV_V1, vdata)
       IN vrows' = IF PreferV2(r2, r1) THEN r2 ELSE r1
    /\ vmode' = "probe"
    /\ vstate' = "rows"
    /\ UNCHANGED <<vlayout, vfile, vver, vdata, vresult, verror>>
    /\ UNCHANGED notResVars

\* line 159: "v2" in mode
ModeIsV2(mode) == mode \in {"v2", "v2(prob)"}

\* lines 160-173: the columns taken from rows in the v2 positions
ColumnsV2(rows) ==
    [index |-> [i \in 1..Len(rows) |-> rows[i][1]],
     unity_t |-> [i \in 1..Len(rows) |-> rows[i][2]],
     rgb_index |-> [i \in 1..Len(rows) |-> rows[i][3]],
     ts |-> [i \in 1..Len(rows) |-> rows[i][4]],
     rc |-> [i \in 1..Len(rows) |-> rows[i][5]],
     q |-> [i \in 1..Len(rows) |->
              <<rows[i][6], rows[i][7], rows[i][8], rows[i][9]>>],
     p |-> [i \in 1..Len(rows) |->
              <<rows[i][10], rows[i][11], rows[i][12]>>]]

\* the struct the rows were unpacked with: CV_V2 tuples have 12 fields,
\* CV_V1 tuples 11
RowsFmt(rows) == IF Len(rows[1]) = 12 THEN CV_V2 ELSE CV_V1

\* the bytes of data that field j of row i was unpacked from
Cell(rows, data, i, j) ==
    SubSeq(data,
           (i - 1) * calcsize(RowsFmt(rows))
               + calcsize(SubSeq(RowsFmt(rows), 1, j - 1)) + 1,
           (i - 1) * calcsize(RowsFmt(rows))
               + calcsize(SubSeq(RowsFmt(rows), 1, j)))

\* whether an int32 array can hold the integer unpacked from b with code c
FitsInt32(c, b) ==
    CASE c = "q" -> \/ b[4] < 128 /\ SubSeq(b, 5, 8) = <<0, 0, 0, 0>>
                    \/ b[4] >= 128 /\ SubSeq(b, 5, 8) = <<255, 255, 255, 255>>
      [] c = "I" -> b[4] < 128
      [] OTHER -> TRUE

\* the int32 that keeps the low 32 bits of the integer unpacked from b
WrapInt32(b) == FromLESigned(SubSeq(b, 1, 4))

RECURSIVE Log2(_)
\* position of the highest set bit of m >= 1
Log2(m) == IF m < 2 THEN 0 ELSE 1 + Log2(m \div 2)

RECURSIVE Pow2(_)
Pow2(n) == IF n = 0 THEN 1 ELSE 2 * Pow2(n - 1)

\* the bytes of the float32 with sign s (0 or 1) nearest to m >= 1, ties
\* to the even mantissa
Float32Bytes(s, m) ==
    LET e == Log2(m)
        sh == e - 23
        up == /\ sh > 0
              /\ \/ m % Pow2(sh) > Pow2(sh - 1)
                 \/ /\ m % Pow2(sh) = Pow2(sh - 1)
                    /\ (m \div Pow2(sh)) % 2 = 1
        mant == IF sh <= 0 THEN m * Pow2(23 - e)
                ELSE m \div Pow2(sh) + (IF up THEN 1 ELSE 0)
        E == IF mant = Pow2(24) THEN e + 128 ELSE e + 127
        frac == IF mant = Pow2(24) THEN 0 ELSE mant - Pow2(23)
    IN <<frac % 256, (frac \div 256) % 256,
         (E % 2) * 128 + frac \div 65536, s * 128 + E \div 2>>

\* np.array([v], dtype=np.float32) of the int32 v held in the 4 bytes b
Float32OfInt(b) ==
    IF b = <<0, 0, 0, 0>> THEN <<"f32", <<0, 0, 0, 0>>>>
    ELSE IF b = <<0, 0, 0, 128>> THEN <<"f32", <<0, 0, 0, 207>>>>
    ELSE IF b[4] >= 128
    THEN <<"f32", Float32Bytes(1, LEValue([i \in 1..4 |-> 255 - b[i]]) + 1)>>
    ELSE <<"f32", Float32Bytes(0, LEValue(b))>>

\* a float32 column entry: a float stays, an integer is converted
AsFloat32(c, b) == IF c = "f" THEN <<"f32", b>> ELSE Float32OfInt(b)

\* line 178: some r[3] is an integer no int32 holds (a 64-bit field of a
\* 12-field row read in the v1 position)
Int32Overflows(rows, data) ==
    \E i \in 1..Len(rows) :
        ~FitsInt32(RowsFmt(rows)[4][1], Cell(rows, data, i, 4))

\* lines 175-187: the columns taken from rows in the v1 positions, each
\* converted to the dtype of its array; rc holds the low 32 bits of r[3]
\* (what the numpy builds that do not raise keep), and r[4] becomes a
\* float32
ColumnsV1(rows, data) ==
    [index |-> [i \in 1..Len(rows) |-> rows[i][1]],
     unity_t |-> [i \in 1..Len(rows) |-> rows[i][2]],
     ts |-> [i \in 1..Len(rows) |-> rows[i][3]],
     rc |-> [i \in 1..Len(rows) |-> WrapInt32(Cell(rows, data, i, 4))],
     q |-> [i \in 1..Len(rows) |->
              <<AsFloat32(RowsFmt(rows)[5][1], Cell(rows, data, i, 5)),
                rows[i][6], rows[i][7], rows[i][8]>>],
     p |-> [i \in 1..Len(rows) |->
              <<rows[i][9], rows[i][10], rows[i][11]>>]]

\* lines 156-187: no rows is an error, else the dict of columns; an r[3]
\* that int32 cannot hold raises OverflowError (numpy 2) or is wrapped
\* (older numpy)
ResReturn ==
    /\ vstate = "rows"
    /\ IF ~Truthy(vrows)
       THEN /\ vstate' = "failed"
            /\ verror' = [type |-> "ValueError",
                          msg |-> "Failed to parse CVPOSE records"]
            /\ UNCHANGED vresult
       ELSE IF ModeIsV2(vmode)
       THEN /\ vstate' = "returned"
            /\ vresult' = [version |-> vver, mode |-> vmode,
                           cols |-> ColumnsV2(vrows.rows)]
            /\ UNCHANGED verror
       ELSE \/ /\ Int32Overflows(vrows.rows, vdata)
               /\ vstate' = "failed"
               /\ verror' = [type |-> "OverflowError", msg |-> "int32"]
               /\ UNCHANGED vresult
            \/ /\ vstate' = "returned"
               /\ vresult' = [version |-> vver, mode |-> vmode,
                              cols |-> ColumnsV1(vrows.rows, vdata)]
               /\ UNCHANGED verror
    /\ UNCHANGED <<vlayout, vfile, vver, vdata, vrows, vmode>>
    /\ UNCHANGED notResVars

ResIdle ==
    /\ vlayout = "off" /\ vfile = <<>> /\ vstate = "off" /\ vver = 0
    /\ vdata = <<>> /\ vrows = NoRows /\ vmode = "none"
    /\ vresult = NoResult /\ verror = NoError

--------------------------------------------------------------------------
(* ml2_autodetect.py: detect_bin_type; ml2_correctness_report.py:
   detect_type *)

\* b"RGBPOSE\x00", b"WORLDCAM" (ml2_correctness_report.py lines 78, 82)
RGBPOSE_MAGIC == <<82, 71, 66, 80, 79, 83, 69, 0>>
WORLDCAM_MAGIC == <<87, 79, 82, 76, 68, 67, 65, 77>>

\* b'IMURAW\x00\x00' (mls_rerun_visualizer.py line 60)
IMU_MAGIC == <<73, 77, 85, 82, 65, 87, 0, 0>>

\* the prefixes detect_bin_type looks for (ml2_autodetect.py lines 7-15)
CVPOSE_PREFIX == <<67, 86, 80, 79, 83, 69>>
RGBPOSE_PREFIX == <<82, 71, 66, 80, 79, 83, 69>>

\* leading bytes of the files tried: the magics of the six kinds, magics
\* that differ from a known one after its name (b"CVPOSEv2", b"RGBPOSE1"),
\* the tag of the live protocol padded with zeros, b"UNKNOWN!"
LeadingChoices ==
    { CVPOSE_MAGIC, HEADPOSE_MAGIC, RGBPOSE_MAGIC, DEPTH_MAGIC,
      WORLDCAM_MAGIC, IMU_MAGIC,
      CVPOSE_PREFIX \o <<118, 50>>,
      RGBPOSE_PREFIX \o <<49>>,
      MAGIC \o <<0, 0, 0, 0>>,
      <<85, 78, 75, 78, 79, 87, 78, 33>> }

\* the file on disk: leading bytes, a version and more, cut anywhere
DetStart ==
    /\ \E m \in LeadingChoices : \E v \in {1, 2} :
         \E cut \in 0..(8 + MaxAfterMagic) :
            tfile = Take(m \o ToLE(v, 4) \o Zeros(MaxAfterMagic), cut)
    /\ tbin = NotCalled
    /\ ttype = NotCalled

\* bytes.startswith
StartsWith(b, prefix) ==
    Len(b) >= Len(prefix) /\ SubSeq(b, 1, Len(prefix)) = prefix

Return(v) == [kind |-> "return", value |-> v]

\* ml2_autodetect.py lines 3-18
detect_bin_type(f) ==
    LET magic == FileRead(f, 0, 8)
    IN IF StartsWith(magic, CVPOSE_PREFIX) THEN Return("cvpose")
       ELSE IF StartsWith(magic, HEADPOSE_MAGIC) THEN Return("headpose")
       ELSE IF StartsWith(magic, RGBPOSE_PREFIX) THEN Return("rgbpose")
       ELSE IF StartsWith(magic, DEPTH_MAGIC) THEN Return("depth")
       ELSE IF StartsWith(magic, WORLDCAM_MAGIC) THEN Return("worldcam")
       ELSE Raise("ValueError", "Unknown bin format")

\* ml2_correctness_report.py lines 71-84
detect_type(f) ==
    LET magic == FileRead(f, 0, 8)
    IN IF magic = CVPOSE_MAGIC THEN Return("cvpose")
       ELSE IF magic = HEADPOSE_MAGIC THEN Return("headpose")
       ELSE IF magic = RGBPOSE_MAGIC THEN Return("rgbpose")
       ELSE IF magic = DEPTH_MAGIC THEN Return("depth")
       ELSE IF magic = WORLDCAM_MAGIC THEN Return("worldcam")
       ELSE Return("unknown")

\* a call of detect_bin_type(path)
DetectBinType ==
    /\ tbin = NotCalled
    /\ tbin' = detect_bin_type(tfile)
    /\ UNCHANGED <<tfile, ttype>>
    /\ UNCHANGED notDetVars

\* a call of detect_type(path)
DetectType ==
    /\ ttype = NotCalled
    /\ ttype' = detect_type(tfile)
    /\ UNCHANGED <<tfile, tbin>>
    /\ UNCHANGED notDetVars

Off == [kind |-> "off"]

DetIdle == tfile = <<>> /\ tbin = Off /\ ttype = Off

--------------------------------------------------------------------------
(* The container readers of ROS2Bridge and Python_files, each applied to
   the same file, one after the other *)

\* struct.unpack(code, data[off:off+size])[0] for a field <<code, off>>
ValueAt(data, fld) ==
    FieldValue(<<fld[1], 1>>,
               SubSeq(data, fld[2] + 1, fld[2] + CodeSize(fld[1])))

\* sum of the widths of the fields <<code, off>> a reader unpacks
RECURSIVE FieldsWidth(_)
FieldsWidth(flds) ==
    IF flds = <<>> THEN 0 ELSE CodeSize(flds[1][1]) + FieldsWidth(Tail(flds))

\* how a reader gets past the container header:
\* f.seek(n)
Seek(n) == [op |-> "seek", n |-> n, magic |-> <<>>]
\* f.read(n), the bytes unused
Skip(n) == [op |-> "skip", n |-> n, magic |-> <<>>]
\* header = f.read(8); if header != m: raise ValueError
CheckMagic(m) == [op |-> "magic", n |-> Len(m), magic |-> m]
\* struct.unpack(fmt, f.read(n)): struct.error unless n bytes were read
Unpack(n) == [op |-> "unpack", n |-> n, magic |-> <<>>]
\* b = read_exact(f, n); if b is None: raise ValueError
Exact(n) == [op |-> "exact", n |-> n, magic |-> <<>>]

RECURSIVE OpenSteps(_, _, _)
\* the position after the header steps, and the exception raised if any
OpenSteps(f, pos, steps) ==
    IF steps = <<>> THEN [pos |-> pos, err |-> NoError]
    ELSE LET s == steps[1]
             got == Len(FileRead(f, pos, s.n))
         IN CASE s.op = "seek" -> OpenSteps(f, s.n, Tail(steps))
              [] s.op = "skip" -> OpenSteps(f, pos + got, Tail(steps))
              [] s.op = "magic" ->
                   IF FileRead(f, pos, s.n) # s.magic
                   THEN [pos |-> pos + got,
                         err |-> [type |-> "ValueError", msg |-> "magic"]]
                   ELSE OpenSteps(f, pos + got, Tail(steps))
              [] s.op = "unpack" ->
                   IF got # s.n
                   THEN [pos |-> pos + got,
                         err |-> [type |-> "struct.error", msg |-> "header"]]
                   ELSE OpenSteps(f, pos + got, Tail(steps))
              [] s.op = "exact" ->
                   IF got # s.n
                   THEN [pos |-> pos + got,
                         err |-> [type |-> "ValueError", msg |-> "header"]]
                   ELSE OpenSteps(f, pos + got, Tail(steps))

\* ---- the fixed-size record readers ----

\* mls_rerun_visualizer.py lines 75-96: frame index, accelerometer x y z,
\* timestamp and flag, gyroscope x y z, timestamp and flag
IMU_FIELDS ==
    << <<"I", 0>>, <<"f", 4>>, <<"f", 8>>, <<"f", 12>>, <<"q", 16>>,
       <<"?", 24>>, <<"f", 25>>, <<"f", 29>>, <<"f", 33>>, <<"q", 37>>,
       <<"?", 45>> >>

\* mls_rerun_visualizer.py lines 138-165
HEADPOSE_FIELDS ==
    << <<"I", 0>>, <<"f", 4>>, <<"q", 8>>, <<"i", 16>>,
       <<"f", 20>>, <<"f", 24>>, <<"f", 28>>, <<"f", 32>>,
       <<"f", 36>>, <<"f", 40>>, <<"f", 44>>,
       <<"I", 48>>, <<"f", 52>>, <<"I", 56>>, <<"?", 60>>, <<"Q", 61>> >>

\* mls_rerun_visualizer.py lines 210-230
CVPOSE_FIELDS ==
    << <<"I", 0>>, <<"f", 4>>, <<"I", 8>>, <<"q", 12>>, <<"i", 20>>,
       <<"f", 24>>, <<"f", 28>>, <<"f", 32>>, <<"f", 36>>,
       <<"f", 40>>, <<"f", 44>>, <<"f", 48>> >>

\* parse_imu_file of mls_rerun_visualizer.py
rerun_parse_imu_file ==
    [name |-> "rerun_parse_imu_file", kind |-> "imu",
     open |-> <<CheckMagic(IMU_MAGIC), Unpack(4), Unpack(4)>>,
     sample_size |-> 4 + 3*4 + 8 + 1 + 3*4 + 8 + 1,
     fields |-> IMU_FIELDS, keep |-> "all"]

\* parse_imu_file of ml2_complete_visualizer.py
complete_parse_imu_file ==
    [name |-> "complete_parse_imu_file", kind |-> "imu",
     open |-> <<Skip(8), Unpack(4), Unpack(4)>>,
     sample_size |-> 54,
     fields |-> IMU_FIELDS, keep |-> "all"]

\* ml2_to_ros2.py: a message is written only "if has_accel and has_gyro"
convert_imu_to_bag ==
    [name |-> "convert_imu_to_bag", kind |-> "imu",
     open |-> <<Seek(16)>>,
     sample_size |-> 54,
     fields |-> IMU_FIELDS, keep |-> "imu_flags"]

\* parse_headpose_file of mls_rerun_visualizer.py
rerun_parse_headpose_file ==
    [name |-> "rerun_parse_headpose_file", kind |-> "headpose",
     open |-> <<CheckMagic(HEADPOSE_MAGIC), Unpack(4)>>,
     sample_size |-> 77,
     fields |-> HEADPOSE_FIELDS, keep |-> "all"]

\* ml2_to_ros2.py: the fields up to confidence are unpacked
convert_headpose_to_bag ==
    [name |-> "convert_headpose_to_bag", kind |-> "headpose",
     open |-> <<Seek(12)>>,
     sample_size |-> 77,
     fields |-> SubSeq(HEADPOSE_FIELDS, 1, 13), keep |-> "all"]

\* parse_headpose_file of ml2_complete_visualizer.py: frame, timestamp,
\* rotation, position, confidence
complete_parse_headpose_file ==
    [name |-> "complete_parse_headpose_file", kind |-> "headpose",
     open |-> <<Skip(12)>>,
     sample_size |-> 77,
     fields |-> << <<"I", 0>>, <<"q", 8>>,
                   <<"f", 20>>, <<"f", 24>>, <<"f", 28>>, <<"f", 32>>,
                   <<"f", 36>>, <<"f", 40>>, <<"f", 44>>, <<"f", 52>> >>,
     keep |-> "all"]

\* parse_cvpose_file of mls_rerun_visualizer.py
rerun_parse_cvpose_file ==
    [name |-> "rerun_parse_cvpose_file", kind |-> "cvpose",
     open |-> <<CheckMagic(CVPOSE_MAGIC), Unpack(4)>>,
     sample_size |-> 56,
     fields |-> CVPOSE_FIELDS, keep |-> "all"]

\* ml2_to_ros2.py: "if result_code != 0: continue"
convert_cvpose_to_bag ==
    [name |-> "convert_cvpose_to_bag", kind |-> "cvpose",
     open |-> <<Seek(12)>>,
     sample_size |-> 56,
     fields |-> CVPOSE_FIELDS, keep |-> "result_zero"]

\* parse_cvpose_file of ml2_complete_visualizer.py: index, timestamp,
\* result, rotation, position
complete_parse_cvpose_file ==
    [name |-> "complete_parse_cvpose_file", kind |-> "cvpose",
     open |-> <<Skip(12)>>,
     sample_size |-> 56,
     fields |-> << <<"I", 0>>, <<"q", 12>>, <<"i", 20>>,
                   <<"f", 24>>, <<"f", 28>>, <<"f", 32>>, <<"f", 36>>,
                   <<"f", 40>>, <<"f", 44>>, <<"f", 48>> >>,
     keep |-> "all"]

FixedReaders ==
    { rerun_parse_imu_file, complete_parse_imu_file, convert_imu_to_bag,
      rerun_parse_headpose_file, convert_headpose_to_bag,
      complete_parse_headpose_file,
      rerun_parse_cvpose_file, convert_cvpose_to_bag,
      complete_parse_cvpose_file }

\* whether the record is passed on (appended, or written to the bag)
Keep(d, data) ==
    CASE d.keep = "all" -> TRUE
      [] d.keep = "imu_flags" -> data[25] # 0 /\ data[46] # 0
      [] d.keep = "result_zero" -> SubSeq(data, 21, 24) = <<0, 0, 0, 0>>

\* ---- the readers of records with a payload ----

\* read_rgbpose of ml2_read_rgbpose.py, line 12
read_rgbpose ==
    [name |-> "read_rgbpose", kind |-> "rgbpose", open |-> <<Unpack(16)>>]
\* read_rgbpose of ml2_correctness_report.py, lines 271-277
report_read_rgbpose ==
    [name |-> "report_read_rgbpose", kind |-> "rgbpose",
     open |-> <<CheckMagic(RGBPOSE_MAGIC), Exact(8)>>]
\* ml2_complete_visualizer.py line 214
parse_rgbpose_file ==
    [name |-> "parse_rgbpose_file", kind |-> "rgbpose", open |-> <<Skip(16)>>]
\* ml2_correctness_report.py lines 441-447
report_read_worldcam ==
    [name |-> "report_read_worldcam", kind |-> "worldcam",
     open |-> <<CheckMagic(WORLDCAM_MAGIC), Exact(4)>>]
\* ml2_complete_visualizer.py lines 278-283
parse_worldcam_file ==
    [name |-> "parse_worldcam_file", kind |-> "worldcam",
     open |-> <<CheckMagic(WORLDCAM_MAGIC), Unpack(4), Unpack(4)>>]
\* ml2_read_depth.py lines 8-9
read_depth ==
    [name |-> "read_depth", kind |-> "depth", open |-> <<Skip(8), Unpack(4)>>]
\* ml2_correctness_report.py lines 361-367
report_read_depthraw ==
    [name |-> "report_read_depthraw", kind |-> "depth",
     open |-> <<CheckMagic(DEPTH_MAGIC), Exact(4)>>]
\* ml2_complete_visualizer.py line 254
parse_depth_file ==
    [name |-> "parse_depth_file", kind |-> "depth", open |-> <<Skip(12)>>]

StreamReaders ==
    { read_rgbpose, report_read_rgbpose, parse_rgbpose_file,
      report_read_worldcam, parse_worldcam_file,
      read_depth, report_read_depthraw, parse_depth_file }

\* the order in which the readers are applied to a file
ReaderOrder ==
    << "rerun_parse_imu_file", "complete_parse_imu_file",
       "convert_imu_to_bag",
       "rerun_parse_headpose_file", "convert_headpose_to_bag",
       "complete_parse_headpose_file",
       "rerun_parse_cvpose_file", "convert_cvpose_to_bag",
       "complete_parse_cvpose_file",
       "read_rgbpose", "report_read_rgbpose", "parse_rgbpose_file",
       "report_read_worldcam", "parse_worldcam_file",
       "read_depth", "report_read_depthraw", "parse_depth_file" >>

ReaderNames == { ReaderOrder[i] : i \in 1..Len(ReaderOrder) }

KindOfReader(r) ==
    IF \E d \in FixedReaders : d.name = r
    THEN (CHOOSE d \in FixedReaders : d.name = r).kind
    ELSE (CHOOSE d \in StreamReaders : d.name = r).kind

ReadersOf(kind) == { r \in ReaderNames : KindOfReader(r) = kind }

RdFinished(r) == xstate[r] \in {"returned", "failed"}

\* reader r is the one running: every reader before it has finished
Turn(r) ==
    \A i, j \in 1..Len(ReaderOrder) :
        (ReaderOrder[j] = r /\ i < j /\ xstate[ReaderOrder[i]] # "off")
            => RdFinished(ReaderOrder[i])

\* the state of reader r after a step
RdSet(r, pos, st, recs, cur, err) ==
    /\ xpos' = [xpos EXCEPT ![r] = pos]
    /\ xstate' = [xstate EXCEPT ![r] = st]
    /\ xrecs' = [xrecs EXCEPT ![r] = recs]
    /\ xcur' = [xcur EXCEPT ![r] = cur]
    /\ xerror' = [xerror EXCEPT ![r] = err]

StructError == [type |-> "struct.error", msg |-> "record"]
NoCur == [off |-> 0, idx |-> 0, ts |-> 0, nslots |-> 0]

\* f.read(n) for n >= 0
ReadN(f, pos, n) ==
    IF n >= Len(f) - pos THEN FileRead(f, pos, Len(f))
    ELSE FileRead(f, pos, n)

\* the sign bit of a 32-bit little-endian count; the count -1
Negative(b) == b[4] >= 128
MinusOne(b) == b = <<255, 255, 255, 255>>

\* f.read(n) for the signed 32-bit n held in b: n bytes or those left,
\* all that is left for n = -1, ValueError ("read length must be
\* non-negative or -1") below that; exact: len(data) == n
ReadSigned(f, pos, b) ==
    IF Negative(b)
    THEN [data |-> IF MinusOne(b) THEN FileRead(f, pos, Len(f)) ELSE <<>>,
          err |-> ~MinusOne(b), exact |-> FALSE]
    ELSE [data |-> ReadN(f, pos, LEValue(b)), err |-> FALSE,
          exact |-> Len(ReadN(f, pos, LEValue(b))) = LEValue(b)]

\* f.read(n) for the unsigned 32-bit n held in b
ReadUnsigned(f, pos, b) ==
    IF Negative(b)
    THEN [data |-> FileRead(f, pos, Len(f)), err |-> FALSE, exact |-> FALSE]
    ELSE [data |-> ReadN(f, pos, LEValue(b)), err |-> FALSE,
          exact |-> Len(ReadN(f, pos, LEValue(b))) = LEValue(b)]

\* the header steps of a reader: open the file and get to the first record
RdOpen ==
    /\ \/ \E d \in FixedReaders :
            /\ xstate[d.name] = "start" /\ Turn(d.name)
            /\ LET o == OpenSteps(xfile, 0, d.open)
               IN RdSet(d.name, o.pos,
                        IF o.err = NoError THEN "loop" ELSE "failed",
                        <<>>, NoCur, o.err)
       \/ \E d \in StreamReaders :
            /\ xstate[d.name] = "start" /\ Turn(d.name)
            /\ LET o == OpenSteps(xfile, 0, d.open)
               IN RdSet(d.name, o.pos,
                        IF o.err = NoError THEN "loop" ELSE "failed",
                        <<>>, NoCur, o.err)
    /\ UNCHANGED <<xkind, xsrc, xfile>>
    /\ UNCHANGED notRdVars

\* one turn of "while True: data = f.read(sample_size); if len(data) <
\* sample_size: break", the fields unpacked at their offsets
FixedRecord ==
    /\ \E d \in FixedReaders :
         LET r == d.name
             data == FileRead(xfile, xpos[r], d.sample_size)
         IN /\ xstate[r] = "loop" /\ Turn(r)
            /\ IF Len(data) < d.sample_size
               THEN RdSet(r, xpos[r] + Len(data), "returned", xrecs[r],
                          NoCur, NoError)
               ELSE RdSet(r, xpos[r] + d.sample_size, "loop",
                          Append(xrecs[r],
                                 [off |-> xpos[r],
                                  vals |-> [i \in 1..Len(d.fields) |->
                                              ValueAt(data, d.fields[i])],
                                  kept |-> Keep(d, data)]),
                          NoCur, NoError)
    /\ UNCHANGED <<xkind, xsrc, xfile>>
    /\ UNCHANGED notRdVars

\* FRAME_HDR = struct.Struct("<Ifqiiiiii ffff fff i"), ml2_read_rgbpose.py
FRAME_HDR ==
    << <<"I", 1>>, <<"f", 1>>, <<"q", 1>>,
       <<"i", 1>>, <<"i", 1>>, <<"i", 1>>, <<"i", 1>>, <<"i", 1>>, <<"i", 1>>,
       <<"f", 1>>, <<"f", 1>>, <<"f", 1>>, <<"f", 1>>,
       <<"f", 1>>, <<"f", 1>>, <<"f", 1>>, <<"i", 1>> >>

\* ml2_read_rgbpose.py lines 14-23: one turn of the loop of read_rgbpose
ReadRgbpose ==
    /\ xstate["read_rgbpose"] = "loop" /\ Turn("read_rgbpose")
    /\ LET r == "read_rgbpose"
           size == calcsize(FRAME_HDR)
           h == FileRead(xfile, xpos[r], size)
           img == ReadSigned(xfile, xpos[r] + size,
                             SubSeq(h, size - 3, size))
       IN IF NotBuf(h)
          THEN RdSet(r, xpos[r], "returned", xrecs[r], NoCur, NoError)
          ELSE IF UnpackFails(FRAME_HDR, h)
          THEN RdSet(r, xpos[r] + Len(h), "failed", xrecs[r], NoCur,
                     StructError)
          ELSE IF img.err
          THEN RdSet(r, xpos[r] + size, "failed", xrecs[r], NoCur,
                     [type |-> "ValueError", msg |-> "read length"])
          ELSE RdSet(r, xpos[r] + size + Len(img.data), "loop",
                     Append(xrecs[r],
                            [off |-> xpos[r],
                             idx |-> ValueAt(h, <<"I", 0>>),
                             ts |-> ValueAt(h, <<"q", 8>>),
                             nbytes |-> SubSeq(h, size - 3, size),
                             got |-> Len(img.data),
                             whole |-> img.exact]),
                     NoCur, NoError)
    /\ UNCHANGED <<xkind, xsrc, xfile>>
    /\ UNCHANGED notRdVars

\* RGB_FIXED_PREFIX = "<Ifq4i", RGB_AFTER_BOOL = "<i4f3fI",
\* ml2_correctness_report.py lines 266-267
RGB_FIXED_PREFIX ==
    << <<"I", 1>>, <<"f", 1>>, <<"q", 1>>,
       <<"i", 1>>, <<"i", 1>>, <<"i", 1>>, <<"i", 1>> >>
RGB_AFTER_BOOL ==
    << <<"i", 1>>, <<"f", 1>>, <<"f", 1>>, <<"f", 1>>, <<"f", 1>>,
       <<"f", 1>>, <<"f", 1>>, <<"f", 1>>, <<"I", 1>> >>

\* how a reader of ml2_correctness_report.py ends after its loop: "if
\* len(ts) == 0: raise ValueError", else the arrays are returned
RepEnd(r, pos) ==
    IF Len(xrecs[r]) = 0
    THEN RdSet(r, pos, "failed", xrecs[r], NoCur,
               [type |-> "ValueError", msg |-> "no frames"])
    ELSE RdSet(r, pos, "returned", xrecs[r], NoCur, NoError)

\* ml2_correctness_report.py lines 292-326: one turn of the loop of
\* read_rgbpose, and the end of the function when the loop breaks
RepReadRgbpose ==
    /\ xstate["report_read_rgbpose"] = "loop" /\ Turn("report_read_rgbpose")
    /\ LET r == "report_read_rgbpose"
           na == calcsize(RGB_FIXED_PREFIX)
           nb == calcsize(RGB_AFTER_BOOL)
           a == report_read_exact(xfile, xpos[r], na)
           bbool == report_read_exact(xfile, a.pos, 1)
           b2 == report_read_exact(xfile, bbool.pos, nb)
           payload == ReadUnsigned(xfile, b2.pos, SubSeq(b2.data, nb - 3, nb))
       IN IF a.none THEN RepEnd(r, a.pos)
          ELSE IF bbool.none THEN RepEnd(r, bbool.pos)
          ELSE IF b2.none THEN RepEnd(r, b2.pos)
          ELSE IF ~payload.exact THEN RepEnd(r, b2.pos + Len(payload.data))
          ELSE RdSet(r, b2.pos + Len(payload.data), "loop",
                     Append(xrecs[r],
                            [off |-> xpos[r],
                             idx |-> ValueAt(a.data, <<"I", 0>>),
                             ts |-> ValueAt(a.data, <<"q", 8>>),
                             nbytes |-> SubSeq(b2.data, nb - 3, nb),
                             got |-> Len(payload.data),
                             whole |-> TRUE]),
                     NoCur, NoError)
    /\ UNCHANGED <<xkind, xsrc, xfile>>
    /\ UNCHANGED notRdVars

\* ml2_complete_visualizer.py lines 215-246: one turn of the loop of
\* parse_rgbpose_file; the reads after the first take 65 bytes, and an
\* unpack of fewer bytes than its format raises struct.error
ParseRgbposeFile ==
    /\ xstate["parse_rgbpose_file"] = "loop" /\ Turn("parse_rgbpose_file")
    /\ LET r == "parse_rgbpose_file"
           raw == FileRead(xfile, xpos[r], 4)
           p == FileRead(xfile, xpos[r], 69)
           size == SubSeq(p, 66, 69)
           img == IF Negative(size) THEN <<>>
                  ELSE ReadN(xfile, xpos[r] + 69, LEValue(size))
       IN IF Len(raw) < 4
          THEN RdSet(r, xpos[r] + Len(raw), "returned", xrecs[r], NoCur,
                     NoError)
          ELSE IF Len(p) < 69
          THEN RdSet(r, xpos[r] + Len(p), "failed", xrecs[r], NoCur,
                     StructError)
          ELSE RdSet(r, xpos[r] + 69 + Len(img), "loop",
                     Append(xrecs[r],
                            [off |-> xpos[r],
                             idx |-> ValueAt(p, <<"I", 0>>),
                             ts |-> ValueAt(p, <<"q", 8>>),
                             nbytes |-> size,
                             got |-> Len(img),
                             whole |-> (Negative(size)
                                        \/ Len(img) = LEValue(size))]),
                     NoCur, NoError)
    /\ UNCHANGED <<xkind, xsrc, xfile>>
    /\ UNCHANGED notRdVars

\* WC_FRAME_PREFIX = struct.Struct("<Ifqi4iI"), ml2_correctness_report.py
\* line 437: idx, unityTime, ts, camId, w, h, stride, format, bytesWritten
WC_FRAME_PREFIX ==
    << <<"I", 1>>, <<"f", 1>>, <<"q", 1>>, <<"i", 1>>,
       <<"i", 1>>, <<"i", 1>>, <<"i", 1>>, <<"i", 1>>, <<"I", 1>> >>

\* ml2_correctness_report.py lines 457-475: one turn of the loop of
\* read_worldcam, and the end of the function when the loop breaks
RepReadWorldcam ==
    /\ xstate["report_read_worldcam"] = "loop"
    /\ Turn("report_read_worldcam")
    /\ LET r == "report_read_worldcam"
           n == calcsize(WC_FRAME_PREFIX)
           p == report_read_exact(xfile, xpos[r], n)
           payload == ReadUnsigned(xfile, p.pos, SubSeq(p.data, n - 3, n))
       IN IF p.none THEN RepEnd(r, p.pos)
          ELSE IF ~payload.exact THEN RepEnd(r, p.pos + Len(payload.data))
          ELSE RdSet(r, p.pos + Len(payload.data), "loop",
                     Append(xrecs[r],
                            [off |-> xpos[r],
                             idx |-> ValueAt(p.data, <<"I", 0>>),
                             ts |-> ValueAt(p.data, <<"q", 8>>),
                             cam |-> ValueAt(p.data, <<"i", 16>>),
                             nbytes |-> SubSeq(p.data, n - 3, n),
                             got |-> Len(payload.data)]),
                     NoCur, NoError)
    /\ UNCHANGED <<xkind, xsrc, xfile>>
    /\ UNCHANGED notRdVars

\* the fields parse_worldcam_file unpacks, ml2_complete_visualizer.py lines
\* 291-301: frame_idx, timestamp_ns, cam_id, frame_type, width, height,
\* stride, bpp, bytes_written
WORLDCAM_FIELDS ==
    << <<"I", 0>>, <<"q", 4>>, <<"I", 12>>, <<"I", 16>>,
       <<"i", 20>>, <<"i", 24>>, <<"i", 28>>, <<"i", 32>>, <<"i", 36>> >>

\* a signed 32-bit value is <= 0, or above lim
NotPositive(b) == Negative(b) \/ LEValue(b) = 0
Above(b, lim) == ~Negative(b) /\ LEValue(b) > lim

\* ml2_complete_visualizer.py lines 286-325: one turn of the loop of
\* parse_worldcam_file
ParseWorldcamFile ==
    /\ xstate["parse_worldcam_file"] = "loop" /\ Turn("parse_worldcam_file")
    /\ LET r == "parse_worldcam_file"
           raw == FileRead(xfile, xpos[r], 4)
           p == FileRead(xfile, xpos[r], 40)
           width == SubSeq(p, 21, 24)
           height == SubSeq(p, 25, 28)
           bytes_written == SubSeq(p, 37, 40)
           image_data == ReadN(xfile, xpos[r] + 40, LEValue(bytes_written))
       IN IF Len(raw) < 4
          THEN RdSet(r, xpos[r] + Len(raw), "returned", xrecs[r], NoCur,
                     NoError)
          ELSE IF Len(p) < 40
          THEN RdSet(r, xpos[r] + Len(p), "failed", xrecs[r], NoCur,
                     StructError)
          ELSE IF \/ NotPositive(width) \/ NotPositive(height)
                  \/ Above(width, 10000) \/ Above(height, 10000)
                  \/ Negative(bytes_written)
                  \/ Above(bytes_written, 200000000)
          THEN RdSet(r, xpos[r] + 40, "returned", xrecs[r], NoCur, NoError)
          ELSE IF Len(image_data) < LEValue(bytes_written)
          THEN RdSet(r, xpos[r] + 40 + Len(image_data), "returned",
                     xrecs[r], NoCur, NoError)
          ELSE RdSet(r, xpos[r] + 40 + Len(image_data), "loop",
                     Append(xrecs[r],
                            [off |-> xpos[r],
                             idx |-> ValueAt(p, WORLDCAM_FIELDS[1]),
                             ts |-> ValueAt(p, WORLDCAM_FIELDS[2]),
                             cam |-> ValueAt(p, WORLDCAM_FIELDS[3]),
                             nbytes |-> bytes_written,
                             got |-> Len(image_data)]),
                     NoCur, NoError)
    /\ UNCHANGED <<xkind, xsrc, xfile>>
    /\ UNCHANGED notRdVars

\* ml2_read_depth.py lines 12-16: the frame prefix, "<Iq"
ReadDepthPrefix ==
    /\ xstate["read_depth"] = "loop" /\ Turn("read_depth")
    /\ LET r == "read_depth"
           h == FileRead(xfile, xpos[r], 4 + 8)
       IN IF NotBuf(h)
          THEN RdSet(r, xpos[r], "returned", xrecs[r], NoCur, NoError)
          ELSE IF Len(h) # 12
          THEN RdSet(r, xpos[r] + Len(h), "failed", xrecs[r], NoCur,
                     StructError)
          ELSE RdSet(r, xpos[r] + 12, "slots", xrecs[r],
                     [off |-> xpos[r],
                      idx |-> ValueAt(h, <<"I", 0>>),
                      ts |-> ValueAt(h, <<"q", 4>>),
                      nslots |-> 0],
                     NoError)
    /\ UNCHANGED <<xkind, xsrc, xfile>>
    /\ UNCHANGED notRdVars

\* ml2_read_depth.py lines 19-25: one turn of "for _ in range(5)", and
\* frames.append after the fifth
ReadDepthSlot ==
    /\ xstate["read_depth"] = "slots" /\ Turn("read_depth")
    /\ LET r == "read_depth"
           meta == FileRead(xfile, xpos[r], 21)
           payload == ReadSigned(xfile, xpos[r] + 21, SubSeq(meta, 18, 21))
           cur == [xcur[r] EXCEPT !.nslots = @ + 1]
       IN IF Len(meta) # 21
          THEN RdSet(r, xpos[r] + Len(meta), "failed", xrecs[r], NoCur,
                     StructError)
          ELSE IF payload.err
          THEN RdSet(r, xpos[r] + 21, "failed", xrecs[r], NoCur,
                     [type |-> "ValueError", msg |-> "read length"])
          ELSE IF cur.nslots < 5
          THEN RdSet(r, xpos[r] + 21 + Len(payload.data), "slots",
                     xrecs[r], cur, NoError)
          ELSE RdSet(r, xpos[r] + 21 + Len(payload.data), "loop",
                     Append(xrecs[r],
                            [off |-> cur.off, idx |-> cur.idx,
                             ts |-> cur.ts]),
                     NoCur, NoError)
    /\ UNCHANGED <<xkind, xsrc, xfile>>
    /\ UNCHANGED notRdVars

\* ml2_correctness_report.py lines 376-382: the frame prefix of
\* read_depthraw; the index and the timestamp are appended at once (full:
\* whether the five block slots of the frame have been read since)
RepDepthPrefix ==
    /\ xstate["report_read_depthraw"] = "loop"
    /\ Turn("report_read_depthraw")
    /\ LET r == "report_read_depthraw"
           pfx == report_read_exact(xfile, xpos[r], 12)
       IN IF pfx.none THEN RepEnd(r, pfx.pos)
          ELSE RdSet(r, pfx.pos, "slots",
                     Append(xrecs[r],
                            [off |-> xpos[r],
                             idx |-> ValueAt(pfx.data, <<"I", 0>>),
                             ts |-> ValueAt(pfx.data, <<"q", 4>>),
                             full |-> FALSE]),
                     [NoCur EXCEPT !.off = xpos[r]],
                     NoError)
    /\ UNCHANGED <<xkind, xsrc, xfile>>
    /\ UNCHANGED notRdVars

\* ml2_correctness_report.py lines 385-410: one turn of "for _ in
\* range(5)"; a short block header or payload sets n = max_frames and ends
\* both loops, then the function ends
RepDepthSlot ==
    /\ xstate["report_read_depthraw"] = "slots"
    /\ Turn("report_read_depthraw")
    /\ LET r == "report_read_depthraw"
           bh == report_read_exact(xfile, xpos[r], 21)
           payload == ReadSigned(xfile, bh.pos, SubSeq(bh.data, 18, 21))
           cur == [xcur[r] EXCEPT !.nslots = @ + 1]
       IN IF bh.none THEN RepEnd(r, bh.pos)
          ELSE IF payload.err
          THEN RdSet(r, bh.pos, "failed", xrecs[r], NoCur,
                     [type |-> "ValueError", msg |-> "read length"])
          ELSE IF ~payload.exact THEN RepEnd(r, bh.pos + Len(payload.data))
          ELSE IF cur.nslots < 5
          THEN RdSet(r, bh.pos + Len(payload.data), "slots", xrecs[r], cur,
                     NoError)
          ELSE RdSet(r, bh.pos + Len(payload.data), "loop",
                     [xrecs[r] EXCEPT ![Len(xrecs[r])].full = TRUE],
                     NoCur, NoError)
    /\ UNCHANGED <<xkind, xsrc, xfile>>
    /\ UNCHANGED notRdVars

\* np.frombuffer(depth_bytes, dtype=np.float32).reshape(h, w) raises
\* ValueError: the byte count is no multiple of 4, or h * w is not the
\* number of floats
ReshapeFails(n, h, w) ==
    \/ n % 4 # 0
    \/ IF n = 0 THEN h # 0 /\ w # 0
       ELSE \/ h > n \/ w > n
            \/ h * w # n \div 4

\* ml2_complete_visualizer.py lines 255-270: one turn of the loop of
\* parse_depth_file; a negative height or width leaves both outcomes of
\* reshape open
ParseDepthFile ==
    /\ xstate["parse_depth_file"] = "loop" /\ Turn("parse_depth_file")
    /\ LET r == "parse_depth_file"
           raw == FileRead(xfile, xpos[r], 4)
           p == FileRead(xfile, xpos[r], 33)
           w == SubSeq(p, 14, 17)
           h == SubSeq(p, 18, 21)
           size == SubSeq(p, 30, 33)
           depth_bytes == IF NotPositive(size) THEN <<>>
                          ELSE ReadN(xfile, xpos[r] + 33, LEValue(size))
           appended == RdSet(r, xpos[r] + 33 + Len(depth_bytes), "loop",
                             Append(xrecs[r],
                                    [off |-> xpos[r],
                                     idx |-> ValueAt(p, <<"I", 0>>),
                                     ts |-> ValueAt(p, <<"q", 4>>)]),
                             NoCur, NoError)
           raised == RdSet(r, xpos[r] + 33 + Len(depth_bytes), "failed",
                           xrecs[r], NoCur,
                           [type |-> "ValueError", msg |-> "reshape"])
       IN IF Len(raw) < 4
          THEN RdSet(r, xpos[r] + Len(raw), "returned", xrecs[r], NoCur,
                     NoError)
          ELSE IF Len(p) < 33
          THEN RdSet(r, xpos[r] + Len(p), "failed", xrecs[r], NoCur,
                     StructError)
          ELSE IF Negative(size) \/ Len(depth_bytes) # LEValue(size)
          THEN RdSet(r, xpos[r] + 33 + Len(depth_bytes), "returned",
                     xrecs[r], NoCur, NoError)
          ELSE IF Negative(h) \/ Negative(w)
          THEN appended \/ raised
          ELSE IF ReshapeFails(LEValue(size), LEValue(h), LEValue(w))
          THEN raised
          ELSE appended
    /\ UNCHANGED <<xkind, xsrc, xfile>>
    /\ UNCHANGED notRdVars

\* ---- the files the readers are given ----

RECURSIVE JoinAll(_)
\* the byte strings of a sequence, one after the other
JoinAll(ss) == IF ss = <<>> THEN <<>> ELSE ss[1] \o JoinAll(Tail(ss))

\* the k-th IMU sample as written: the fields of IMU_FIELDS, back to back
ImuRecBytes(k) ==
    ToLE(k, 4) \o FloatF(k) \o OneF \o OneF \o ToLE(1000 * k, 8) \o <<1>>
    \o FloatF(k + 1) \o OneF \o OneF \o ToLE(1000 * k + 1, 8) \o <<k % 2>>

\* the IMU header: magic, version, sample rate
ImuHeader == IMU_MAGIC \o ToLE(1, 4) \o ToLE(200, 4)

\* the k-th RGB+pose frame with payload p, in the layout documented at
\* ml2_correctness_report.py lines 254-264: frameIndex, unityTime,
\* timestampNs, width, height, strideBytes, format, pose_valid (one byte),
\* resultCode, rotation, position, bytesWritten, image bytes
RgbRecBytes(k, p) ==
    ToLE(k, 4) \o FloatF(k) \o ToLE(1000 * k, 8)
    \o ToLE(2, 4) \o ToLE(1, 4) \o ToLE(8, 4) \o ToLE(0, 4)
    \o <<1>> \o ToLE(0, 4)
    \o FloatF(k) \o FloatF(k + 1) \o FloatF(k + 2) \o OneF
    \o FloatF(k + 3) \o FloatF(k + 4) \o FloatF(k + 5)
    \o ToLE(Len(p), 4) \o p

\* the RGB+pose header: magic, version, two int32 in all
RgbHeader == RGBPOSE_MAGIC \o ToLE(1, 4) \o ToLE(0, 4)

\* the world-camera header: with the capability mask ("mask": magic,
\* version, identifiers mask) or without it ("plain": magic, version)
WcHeader(layout) ==
    IF layout = "mask"
    THEN WORLDCAM_MAGIC \o ToLE(1, 4) \o ToLE(15, 4)
    ELSE WORLDCAM_MAGIC \o ToLE(1, 4)

\* the k-th world-camera frame with payload p: "mask" has the fields of
\* WORLDCAM_FIELDS, "plain" those of WC_FRAME_PREFIX
WcRecBytes(layout, k, p) ==
    IF layout = "mask"
    THEN ToLE(k, 4) \o ToLE(1000 * k, 8) \o ToLE((k % 2) + 1, 4) \o ToLE(0, 4)
         \o ToLE(2, 4) \o ToLE(1, 4) \o ToLE(2, 4) \o ToLE(1, 4)
         \o ToLE(Len(p), 4) \o p
    ELSE ToLE(k, 4) \o FloatF(k) \o ToLE(1000 * k, 8) \o ToLE((k % 2) + 1, 4)
         \o ToLE(2, 4) \o ToLE(1, 4) \o ToLE(2, 4) \o ToLE(1, 4)
         \o ToLE(Len(p), 4) \o p

\* payload sizes written to the RGB+pose and world-camera files
PayloadSizes == {0, 2}

\* a container as written: its kind, its header and its records
RdSources ==
    { [kind |-> "imu", layout |-> "only", hdr |-> ImuHeader,
       recs |-> [k \in 1..n |-> ImuRecBytes(k)]] : n \in 0..MaxBridgeRecords }
    \cup
    { [kind |-> "cvpose", layout |-> "only",
       hdr |-> ContainerHeader(CVPOSE_MAGIC, 2),
       recs |-> [k \in 1..n |-> CvRecBytes(CvRec(k))]] :
         n \in 0..MaxBridgeRecords }
    \cup
    { [kind |-> "headpose", layout |-> "only",
       hdr |-> ContainerHeader(HEADPOSE_MAGIC, 2),
       recs |-> [k \in 1..n |-> HeadRecBytes(HeadRec(k))]] :
         n \in 0..MaxBridgeRecords }
    \cup
    { [kind |-> "rgbpose", layout |-> "only", hdr |-> RgbHeader,
       recs |-> [k \in 1..c[1] |-> RgbRecBytes(k, PayloadBytes(c[2]))]] :
         c \in (0..MaxStreamRecords) \X PayloadSizes }
    \cup
    { [kind |-> "worldcam", layout |-> c[3], hdr |-> WcHeader(c[3]),
       recs |-> [k \in 1..c[1] |-> WcRecBytes(c[3], k, PayloadBytes(c[2]))]] :
         c \in (0..MaxStreamRecords) \X PayloadSizes \X {"mask", "plain"} }
    \cup
    { [kind |-> "depth", layout |-> "only",
       hdr |-> ContainerHeader(DEPTH_MAGIC, 1),
       recs |-> [k \in 1..Len(frs) |-> DepthFrameBytes(frs[k])]] :
         frs \in DepthFrameSeqs }

\* offset in the container as written of its k-th record
RECURSIVE RecOffset(_, _)
RecOffset(s, k) ==
    IF k <= 1 THEN Len(s.hdr)
    ELSE RecOffset(s, k - 1) + Len(s.recs[k - 1])

\* a container, whole or with its last bytes missing, and the readers of
\* its kind about to be called on it
RdStart ==
    \E s \in RdSources, missing \in 0..MaxMissing :
        /\ missing <= Len(s.hdr \o JoinAll(s.recs))
        /\ xkind = s.kind
        /\ xsrc = s
        /\ xfile = Take(s.hdr \o JoinAll(s.recs),
                        Len(s.hdr \o JoinAll(s.recs)) - missing)
        /\ xpos = [r \in ReaderNames |-> 0]
        /\ xstate = [r \in ReaderNames |->
                       IF KindOfReader(r) = s.kind THEN "start" ELSE "off"]
        /\ xrecs = [r \in ReaderNames |-> <<>>]
        /\ xcur = [r \in ReaderNames |-> NoCur]
        /\ xerror = [r \in ReaderNames |-> NoError]

RdIdle ==
    /\ xkind = "off" /\ xsrc = Off /\ xfile = <<>>
    /\ xpos = <<>> /\ xstate = <<>> /\ xrecs = <<>> /\ xcur = <<>>
    /\ xerror = <<>>

--------------------------------------------------------------------------
(* Specifications: one per program *)

RecvInit == RecvStart /\ BlockIdle /\ IterIdle /\ CvIdle /\ HeadIdle
    /\ ResIdle /\ DetIdle /\ RdIdle

RecvNext == RecvChunk \/ RecvClosed \/ HeaderRead \/ PayloadRead

SpecRecv == RecvInit /\ [][RecvNext]_vars

BlockInit == BlockStart /\ RecvIdle /\ IterIdle /\ CvIdle /\ HeadIdle
    /\ ResIdle /\ DetIdle /\ RdIdle

BlockNext == CallDecode

SpecBlock == BlockInit /\ [][BlockNext]_vars

IterInit == IterStart /\ RecvIdle /\ BlockIdle /\ CvIdle /\ HeadIdle
    /\ ResIdle /\ DetIdle /\ RdIdle

IterNext == OpenContainer \/ ReadPrefix \/ ReadSlot \/ YieldFrame

SpecIter == IterInit /\ [][IterNext]_vars

CvInit == CvStart /\ RecvIdle /\ BlockIdle /\ IterIdle /\ HeadIdle
    /\ ResIdle /\ DetIdle /\ RdIdle

CvNext == CvOpen \/ CvRecord

SpecCv == CvInit /\ [][CvNext]_vars

HeadInit == HeadStart /\ RecvIdle /\ BlockIdle /\ IterIdle /\ CvIdle
    /\ ResIdle /\ DetIdle /\ RdIdle

HeadNext ==
    HeadOpen \/ HeadRecord \/ RepHeadOpen \/ RepHeadRecord \/ RepHeadReturn

SpecHead == HeadInit /\ [][HeadNext]_vars

ResInit ==
    ResStart /\ RecvIdle /\ BlockIdle /\ IterIdle /\ CvIdle /\ HeadIdle
    /\ DetIdle /\ RdIdle

ResNext == ResOpen \/ ResStrict \/ ResDeclaredV1 \/ ResProbe \/ ResReturn

SpecRes == ResInit /\ [][ResNext]_vars

DetInit ==
    DetStart /\ RecvIdle /\ BlockIdle /\ IterIdle /\ CvIdle /\ HeadIdle
    /\ ResIdle /\ RdIdle

DetNext == DetectBinType \/ DetectType

SpecDet == DetInit /\ [][DetNext]_vars

RdInit ==
    RdStart /\ RecvIdle /\ BlockIdle /\ IterIdle /\ CvIdle /\ HeadIdle
    /\ ResIdle /\ DetIdle

RdNext ==
    RdOpen \/ FixedRecord \/ ReadRgbpose \/ RepReadRgbpose
    \/ ParseRgbposeFile \/ RepReadWorldcam \/ ParseWorldcamFile
    \/ ReadDepthPrefix \/ ReadDepthSlot \/ RepDepthPrefix \/ RepDepthSlot
    \/ ParseDepthFile

SpecReaders == RdInit /\ [][RdNext]_vars

--------------------------------------------------------------------------
(* Claims about the live receiver, checked under SpecRecv *)

\* frame k of the peer arrived whole before the connection closed
Arrived(k) == k <= Len(sent) /\ FrameStart(sent, k + 1) <= Len(wire)

\* index of the first frame whose header is not (MAGIC, version 1)
FirstBad ==
    IF \E k \in 1..Len(sent) : ~WellFormed(sent[k])
    THEN CHOOSE k \in 1..Len(sent) :
            /\ ~WellFormed(sent[k])
            /\ \A j \in 1..(k - 1) : WellFormed(sent[j])
    ELSE Len(sent) + 1

\* the sink and the tag read back from a file name
SinkOfName(name) == name[3]
LabelOfName(name) == IF name[3] = "unknown" THEN DecValue(name[4]) ELSE -1
StreamOfName(name) ==
    IF name[3] = "unknown" THEN DecValue(name[6]) ELSE DecValue(name[5])
FrameOfName(name) ==
    IF name[3] = "unknown" THEN DecValue(name[8]) ELSE DecValue(name[7])

\* delivery k is the payload of the peer's frame k
DeliveredIs(k) == deliveries[k].data = sent[k].payload

\* C1: the receiver alternates between one header and that header's
\* payload and delivers exactly one payload per well-formed header, in
\* arrival order, nothing skipped, duplicated or reordered: the deliveries
\* are always the payloads of the first frames of the peer, the receiver
\* reads the header (then the payload) of the frame after the last delivered
\* one, and when the connection has closed every frame that arrived whole
\* has been delivered.
C1_OnePayloadPerHeaderInOrder ==
    LET n == Len(deliveries)
    IN /\ n < FirstBad
       /\ \A k \in 1..n :
            /\ Arrived(k)
            /\ DeliveredIs(k)
            /\ StreamOfName(deliveries[k].name) = sent[k].stream_id
            /\ FrameOfName(deliveries[k].name) = sent[k].frame_idx
       /\ rstate = "header" =>
            /\ rpos - Len(buf) = FrameStart(sent, n + 1)
            /\ Len(buf) <= HDR_SIZE
       /\ rstate = "payload" =>
            /\ n + 1 <= Len(sent)
            /\ hdr.payload_len = Len(sent[n + 1].payload)
            /\ rpos - Len(buf) = FrameStart(sent, n + 2) - hdr.payload_len
            /\ Len(buf) <= hdr.payload_len
       /\ (rstate = "failed" /\ error.type = "ConnectionError") =>
            /\ rpos = Len(wire)
            /\ ~Arrived(n + 1)

\* the end-to-end example: header (sensorType 1, stream 0, frame 7, 4x4)
\* plus 64 zero bytes, then close: one delivery, depth / stream 0 / frame 7
C1_Witness ==
    /\ sent = <<MkFrame(MAGIC, 1, 1, 0, 7, 0, 4, 4, Zeros(64))>>
    /\ Len(wire) = HDR_SIZE + 64
    /\ rstate = "failed"
    /\ error.type = "ConnectionError"
    /\ Len(deliveries) = 1
    /\ SinkOfName(deliveries[1].name) = "depth"
    /\ StreamOfName(deliveries[1].name) = 0
    /\ FrameOfName(deliveries[1].name) = 7
    /\ deliveries[1].data = Zeros(64)

\* C2: a header with a foreign magic or a version other than 1 is fatal:
\* the receiver never reads a payload for it, delivers nothing for it or
\* after it, stops (nothing is enabled once failed), has consumed exactly
\* that header, and keeps the deliveries made before it.
C2_BadHeaderIsFatal ==
    LET n == Len(deliveries)
    IN /\ n < FirstBad
       /\ rstate = "payload" => n + 1 < FirstBad
       /\ rstate = "failed" => ~ENABLED RecvNext
       /\ error.type = "ValueError" =>
            /\ rstate = "failed"
            /\ n + 1 = FirstBad
            /\ rpos = FrameStart(sent, FirstBad) + HDR_SIZE
            /\ \A k \in 1..n : DeliveredIs(k)
            /\ error.msg = (IF sent[FirstBad].magic # MAGIC
                            THEN "bad magic" ELSE "unsupported version")
       /\ (rstate = "header" /\ Len(buf) = HDR_SIZE /\ n + 1 = FirstBad) =>
            HeaderError(UnpackHdr(buf)) # NoError

\* a bad-version header after one delivered frame, with its payload and
\* nothing else read
C2_Witness ==
    /\ error = [type |-> "ValueError", msg |-> "unsupported version"]
    /\ Len(deliveries) = 1
    /\ rpos < Len(wire)
    /\ Cardinality(files) = 1

\* C3 (as amended): the multiplex header is exactly 40 bytes: the widths of
\* the ten fields sum to 40 and the payload of frame k starts 40 bytes after
\* the start of header k.
C3_HeaderIs40Bytes ==
    /\ calcsize(HDR_FMT) = 40
    /\ rstate = "payload" =>
         /\ hdrStart = FrameStart(sent, Len(deliveries) + 1)
         /\ rpos - Len(buf) = hdrStart + 40
         /\ hdr.payload_len = Len(sent[Len(deliveries) + 1].payload)

\* C3 as stated: the header is 24 bytes and the payload starts 24 bytes
\* after the start of its header
C3_HeaderIs24Bytes ==
    rstate = "payload" =>
        /\ calcsize(HDR_FMT) = 24
        /\ rpos - Len(buf) = hdrStart + 24

\* the second frame's payload is being read, part of it received
C3_Witness ==
    /\ rstate = "payload"
    /\ Len(deliveries) = 1
    /\ hdrStart > 0
    /\ Len(buf) > 0

\* the connection closed with zero bytes of the next header received
ClosedAtBoundary ==
    rstate = "failed" /\ error.type = "ConnectionError" /\ rpos = hdrStart

\* the connection closed inside a header or a payload
ClosedMidRecord ==
    rstate = "failed" /\ error.type = "ConnectionError" /\ rpos > hdrStart

\* C4: a close inside a record is signalled by an outcome different from
\* the one that signals a close at a record boundary (the outcome recvn
\* raises with an empty buffer while waiting for a header).
C4_ClosedDistinctFromShortRead ==
    ClosedMidRecord => error # SocketClosed(<<>>)

\* what the code does: both closes raise the same exception
C4_SameOutcome ==
    (ClosedAtBoundary \/ ClosedMidRecord) => error = SocketClosed(<<>>)

\* the sink a sensor type is routed to
SinkOfType(t) ==
    CASE t = 1 -> "depth" [] t = 2 -> "worldcam" [] t = 3 -> "imu"
      [] OTHER -> "unknown"

\* C5: every payload after a valid header is written once, to the sink
\* chosen by sensorType (1 depth, 2 world camera, 3 IMU, anything else the
\* unknown sink labelled with the number), tagged with the header's
\* streamId and frameIndex.
C5_RoutedBySensorType ==
    /\ \A k \in 1..Len(deliveries) :
         LET name == deliveries[k].name
         IN /\ SinkOfName(name) = SinkOfType(sent[k].sensor_type)
            /\ SinkOfName(name) = "unknown" =>
                 LabelOfName(name) = sent[k].sensor_type
            /\ StreamOfName(name) = sent[k].stream_id
            /\ FrameOfName(name) = sent[k].frame_idx
            /\ [name |-> name, data |-> sent[k].payload] \in files
                 \/ \E j \in (k + 1)..Len(deliveries) :
                       deliveries[j].name = name
    /\ \A f \in files : \E k \in 1..Len(deliveries) : deliveries[k] = f
    /\ rstate = "payload" =>
         /\ hdr.sensor_type = sent[Len(deliveries) + 1].sensor_type
         /\ hdr.stream_id = sent[Len(deliveries) + 1].stream_id
         /\ hdr.frame_idx = sent[Len(deliveries) + 1].frame_idx

\* an IMU frame and a frame of type 259 have both been delivered
C5_Witness ==
    /\ Len(deliveries) = 2
    /\ SinkOfName(deliveries[1].name) = "imu"
    /\ StreamOfName(deliveries[1].name) = 513
    /\ FrameOfName(deliveries[1].name) = 1234567
    /\ SinkOfName(deliveries[2].name) = "unknown"
    /\ LabelOfName(deliveries[2].name) = 259
    /\ Cardinality(files) = 2

--------------------------------------------------------------------------
(* Claims about Block.decode, checked under SpecBlock *)

NonEmptyBlock(b) == b.nbytes > 0 /\ b.width > 0 /\ b.height > 0

\* the three MalformedBlock conditions of the specification
StrideNotPositive(b) == b.stride <= 0
StrideNotMultiple(b) == b.stride % 4 # 0
ShorterThanRows(b) == b.nbytes < b.stride * b.height

ValidBlock(b) ==
    /\ NonEmptyBlock(b)
    /\ ~StrideNotPositive(b) /\ ~StrideNotMultiple(b) /\ ~ShorterThanRows(b)
    /\ Len(b.payload) = b.nbytes

\* the 4-byte element at payload byte offset off (from 0)
ElementAt(b, off) ==
    <<IF b.block_type = 3 THEN "uint32" ELSE "float32",
      SubSeq(b.payload, off + 1, off + 4)>>

\* row r, column c (from 0) of the result is the element at r*stride + 4*c,
\* for the first cols columns
RowsMatch(b, rows, cols) ==
    \A r \in 1..Len(rows) : \A c \in 1..cols :
        c <= Len(rows[r])
        /\ rows[r][c] = ElementAt(b, (r - 1) * b.stride + 4 * (c - 1))

\* C6: for every valid non-empty Block and every positive width (also one
\* larger than stride/4) decode returns height rows of exactly width
\* columns, element (r, c) being the 4-byte element at r*stride + 4*c,
\* uint32 for block type 3 and float32 otherwise.
C6_DecodeShapeHeightByWidth ==
    (bstate = "done" /\ ValidBlock(blk)) =>
        /\ bresult.kind = "array"
        /\ bresult.dtype = (IF blk.block_type = 3 THEN "uint32" ELSE "float32")
        /\ Len(bresult.rows) = blk.height
        /\ \A r \in 1..blk.height : Len(bresult.rows[r]) = blk.width
        /\ RowsMatch(blk, bresult.rows, blk.width)

\* what the code does for a valid Block: height rows of min(width, stride/4)
\* columns, the elements at r*stride + 4*c
C6_DecodeShapeWithinStride ==
    (bstate = "done" /\ ValidBlock(blk)) =>
        /\ bresult.kind = "array"
        /\ bresult.dtype = (IF blk.block_type = 3 THEN "uint32" ELSE "float32")
        /\ Len(bresult.rows) = blk.height
        /\ \A r \in 1..blk.height :
             Len(bresult.rows[r]) = Min(blk.width, blk.stride \div 4)
        /\ RowsMatch(blk, bresult.rows, Min(blk.width, blk.stride \div 4))

\* C7: a Block with byteCount <= 0, width <= 0 or height <= 0 decodes to
\* "empty", never to an error, whatever its other fields are.
C7_EmptyBlockDecodesEmpty ==
    (bstate = "done"
     /\ (blk.nbytes <= 0 \/ blk.width <= 0 \/ blk.height <= 0)) =>
        bresult = None

\* an empty Block (width 0) with bytes, a negative stride: decoded to empty
C7_Witness ==
    /\ bstate = "done"
    /\ blk.width = 0 /\ blk.height > 0 /\ blk.nbytes > 0
    /\ blk.stride < 0
    /\ bresult = None

\* C8: for a non-empty Block decode raises the malformed-block error
\* (ValueError) whenever stride <= 0, stride is no multiple of 4 or
\* byteCount < stride*height, and returns an array only when none holds.
C8_MalformedBlockRaises ==
    (bstate = "done" /\ NonEmptyBlock(blk)) =>
        /\ bresult.kind \in {"error", "array"}
        /\ (StrideNotPositive(blk) \/ StrideNotMultiple(blk)
            \/ ShorterThanRows(blk)) =>
               (bresult.kind = "error" /\ bresult.type = "ValueError")
        /\ bresult.kind = "array" =>
               /\ ~StrideNotPositive(blk)
               /\ ~StrideNotMultiple(blk)
               /\ ~ShorterThanRows(blk)
        /\ ValidBlock(blk) => bresult.kind = "array"

\* a non-empty Block with enough bytes whose stride 6 is no multiple of 4:
\* decode raised
C8_Witness ==
    /\ bstate = "done"
    /\ NonEmptyBlock(blk)
    /\ blk.stride = 6 /\ blk.height = 2 /\ blk.nbytes >= 12
    /\ bresult.kind = "error"
    /\ bresult.type = "ValueError"

--------------------------------------------------------------------------
(* Claims about iter_frames, checked under SpecIter *)

\* the container starts with the 12 bytes b"DEPTHRAW", version 1
ValidDepthHeader ==
    Len(dfile) >= 12 /\ Take(dfile, 12) = ContainerHeader(DEPTH_MAGIC, 1)

\* the number of written frames that are completely present in the file
CompleteFrames ==
    Cardinality({ k \in 1..Len(written) :
                    DepthFrameEnd(written, k) <= Len(dfile) })

\* the Frame a complete written frame reads as: each block type maps to the
\* last slot of that type
FrameOf(fr) ==
    [frame_index |-> fr.frame_index,
     capture_time_ns |-> fr.capture_time_ns,
     blocks |-> [t \in { fr.slots[i].block_type : i \in 1..5 } |->
                   fr.slots[CHOOSE i \in 1..5 :
                              /\ fr.slots[i].block_type = t
                              /\ \A j \in (i + 1)..5 :
                                    fr.slots[j].block_type # t]]]

\* C9: on a container with a valid header iter_frames yields, in file
\* order, exactly the frames completely present in the file: a frame the
\* file ends inside (prefix, block header or block payload) is not yielded,
\* the iteration ends without raising, and every earlier complete frame has
\* been yielded.
C9_YieldsExactlyCompleteFrames ==
    ValidDepthHeader =>
        /\ dstate # "failed"
        /\ derror = NoError
        /\ Len(yielded) <= CompleteFrames
        /\ \A k \in 1..Len(yielded) : yielded[k] = FrameOf(written[k])
        /\ dstate = "ended" =>
             /\ Len(yielded) = CompleteFrames
             /\ dpos = Len(dfile)

\* the file ends five bytes into the 16-byte payload of the first block of
\* the second frame: the iteration ended with the first frame only
C9_Witness ==
    /\ dstate = "ended"
    /\ Len(written) = 2
    /\ written[2].slots[1].nbytes = 16
    /\ Len(dfile) = DepthFrameEnd(written, 1) + 12 + 21 + 5
    /\ Len(yielded) = 1
    /\ yielded[1] = FrameOf(written[1])

--------------------------------------------------------------------------
(* Claims about read_cvpose of ml2_read_cvpose.py, checked under SpecCv *)

ValidCvHeader ==
    Len(cfile) >= 12 /\ Take(cfile, 12) = ContainerHeader(CVPOSE_MAGIC, 2)

\* whole records after the header, and the bytes of a cut-short last one
CvWhole == (Len(cfile) - 12) \div 52
CvTail == (Len(cfile) - 12) % 52

\* what a complete written record reads as
CvRowOf(r) ==
    [ts |-> r.ts, result |-> r.result,
     quat |-> [i \in 1..4 |-> <<"f32", r.quat[i]>>],
     pos |-> [i \in 1..3 |-> <<"f32", r.pos[i]>>]]

CvFinished == cstate \in {"returned", "failed"}

\* C10: on a CVPOSE container with k complete records and a last record
\* cut short by 1..51 bytes, read_cvpose returns exactly the k complete
\* records and raises nothing.
C10_TruncatedTailReturnsComplete ==
    (CvFinished /\ ValidCvHeader /\ CvTail \in 1..51) =>
        /\ cstate = "returned"
        /\ cerror = NoError
        /\ Len(crows) = CvWhole
        /\ \A k \in 1..Len(crows) : crows[k] = CvRowOf(cwritten[k])

\* what the code does: it returns the k complete records when the file
\* ends at a record boundary, and raises struct.error from REC.unpack when
\* the last record is cut short
C10_TruncatedTailRaises ==
    (CvFinished /\ ValidCvHeader) =>
        /\ Len(crows) = CvWhole
        /\ \A k \in 1..Len(crows) : crows[k] = CvRowOf(cwritten[k])
        /\ CvTail = 0 => (cstate = "returned" /\ cerror = NoError)
        /\ CvTail \in 1..51 =>
             (cstate = "failed" /\ cerror.type = "struct.error")

--------------------------------------------------------------------------
(* Claims about the HEADPOSE readers, checked under SpecHead *)

ValidHeadHeader ==
    Len(hfile) >= 12 /\ Take(hfile, 12) = ContainerHeader(HEADPOSE_MAGIC, 2)

\* whole records after the header, and the bytes of a cut-short last one
HeadWhole == (Len(hfile) - 12) \div 69
HeadTail == (Len(hfile) - 12) % 69

\* what ml2_read_headpose.read_headpose returns of a complete written record
HeadRowOf(r) ==
    [ts |-> r.ts, result |-> r.result,
     quat |-> [i \in 1..4 |-> <<"f32", r.quat[i]>>],
     pos |-> [i \in 1..3 |-> <<"f32", r.pos[i]>>],
     status |-> r.status, conf |-> <<"f32", r.confidence>>,
     err |-> r.error_flags, has_evt |-> r.has_map_event,
     mapmask |-> r.map_events_mask]

\* the result of a reader for the first k written records
HeadRowsOf(k) == [i \in 1..k |-> HeadRowOf(hwritten[i])]

HeadFinished == hstate \in {"returned", "failed"}

\* C11: on a version-2 HEADPOSE container with k complete records and a
\* last record cut short by 1..68 bytes, read_headpose of
\* ml2_read_headpose.py returns exactly the k complete records, in order,
\* and raises nothing; this is the result it has for the same container
\* without the partial tail (the file ending at the record boundary).
C11_PartialTailIgnored ==
    (hreader = "ml2_read_headpose" /\ HeadFinished /\ ValidHeadHeader) =>
        /\ hstate = "returned"
        /\ herror = NoError
        /\ hrows = HeadRowsOf(HeadWhole)

\* one complete record and 68 of the 69 bytes of a second one: returned
\* with the first record only
C11_Witness ==
    /\ hreader = "ml2_read_headpose"
    /\ hstate = "returned"
    /\ ValidHeadHeader
    /\ Len(hwritten) = 2
    /\ HeadWhole = 1
    /\ HeadTail = 68
    /\ hrows = <<HeadRowOf(hwritten[1])>>

--------------------------------------------------------------------------
(* The ending of a file-mode reader, checked under SpecIter and SpecHead *)

\* the file ends inside a frame: after the last complete frame there are
\* bytes of a frame that is not complete
EndsMidFrame ==
    ValidDepthHeader /\ Len(dfile) > DepthFrameEnd(written, CompleteFrames)

\* what a caller of iter_frames observes: the frames and the exception
IterOutcome == [frames |-> yielded, error |-> derror]

\* the outcome for the same container cut at the boundary that precedes
\* the partial frame: the complete frames and no exception
IterOutcomeAtBoundary ==
    [frames |-> [k \in 1..CompleteFrames |-> FrameOf(written[k])],
     error |-> NoError]

\* C12: when iter_frames stops on a container that ends in the middle of a
\* frame, the outcome the caller observes differs from the outcome for the
\* same container cut at the preceding frame boundary (the truncated
\* ending is flagged).
C12_TruncatedEndingFlagged ==
    (dstate \in {"ended", "failed"} /\ EndsMidFrame) =>
        IterOutcome # IterOutcomeAtBoundary

\* what the code does: the two endings give the same frames and no flag
C12_IterTruncatedSameAsClean ==
    (dstate \in {"ended", "failed"} /\ ValidDepthHeader) =>
        IterOutcome = IterOutcomeAtBoundary

\* the same for read_headpose of ml2_read_headpose.py: lines 40-44 break
\* on an empty read and on a partial record alike
C12_HeadTruncatedSameAsClean ==
    (hreader = "ml2_read_headpose" /\ HeadFinished /\ ValidHeadHeader) =>
        [rows |-> hrows, error |-> herror]
          = [rows |-> HeadRowsOf(HeadWhole), error |-> NoError]

--------------------------------------------------------------------------
(* Claims about the CVPOSE version resolver, checked under SpecRes *)

\* the file has the CVPOSE magic and a whole version field
ResHeaderOk == Len(vfile) >= 12 /\ Take(vfile, 8) = CVPOSE_MAGIC

\* the version the header declares
Declared == FromLESigned(SubSeq(vfile, 9, 12))

\* the bytes after the header and the whole records each layout yields
ResDataLen == Len(vfile) - 12
WholeV1 == ResDataLen \div 48
WholeV2 == ResDataLen \div 52

ResFinished == vstate \in {"returned", "failed"}

\* the layout whose parse became rows: v2 tuples have 12 fields, v1
\* tuples 11
Selected ==
    IF ~Truthy(vrows) THEN "none"
    ELSE IF Len(vrows.rows[1]) = 12 THEN "v2" ELSE "v1"

\* the return raised while converting the selected rows to arrays
ConversionFailed == vstate = "failed" /\ verror.type = "OverflowError"

\* the resolver took layout's parse as its rows (lines 135-154), whether
\* the conversion to arrays then returned or raised
RowsChosen(layout) ==
    (vstate = "returned" \/ ConversionFailed) /\ Selected = layout

\* the result is layout's reading of the records: its rows, returned in
\* the columns of that layout ("v2" in mode exactly for the v2 layout)
ResSelects(layout) ==
    /\ vstate = "returned"
    /\ Selected = layout
    /\ ModeIsV2(vmode) <=> layout = "v2"

NoViableLayout ==
    /\ vstate = "failed"
    /\ verror = [type |-> "ValueError",
                 msg |-> "Failed to parse CVPOSE records"]

\* C13: the resolver selects the layout that yields strictly more whole
\* records from the bytes after the header; when both yield the same
\* number of whole records it selects the layout of the declared version.
C13_MoreRecordsThenDeclared ==
    (ResFinished /\ ResHeaderOk) =>
        /\ WholeV1 > WholeV2 => ResSelects("v1")
        /\ WholeV2 > WholeV1 => ResSelects("v2")
        /\ (WholeV1 = WholeV2 /\ WholeV1 >= 1 /\ Declared = 1)
              => ResSelects("v1")
        /\ (WholeV1 = WholeV2 /\ WholeV1 >= 1 /\ Declared = 2)
              => ResSelects("v2")

\* C14: when the bytes after the header are a positive multiple of one
\* layout's record size and not a multiple of the other's, the resolver
\* selects that layout, whatever version is declared.
C14_DividesEvenlySelected ==
    (ResFinished /\ ResHeaderOk /\ ResDataLen > 0) =>
        /\ (ResDataLen % 48 = 0 /\ ResDataLen % 52 # 0) => ResSelects("v1")
        /\ (ResDataLen % 52 = 0 /\ ResDataLen % 48 # 0) => ResSelects("v2")

\* C15: the resolver fails with the no-viable-layout error exactly when
\* both layouts yield zero whole records.
C15_FailsIffNoLayoutYields ==
    (ResFinished /\ ResHeaderOk) =>
        (NoViableLayout <=> (WholeV1 = 0 /\ WholeV2 = 0))

\* what the code does: declared version 2 is read in the v2 layout only;
\* any other declared version gets v2 whenever v2 yields a record and as
\* many records as v1, and v1 otherwise
ResolverChoice ==
    (ResFinished /\ ResHeaderOk) =>
        IF Declared = 2
        THEN IF WholeV2 >= 1 THEN RowsChosen("v2") ELSE NoViableLayout
        ELSE IF WholeV1 = 0 THEN NoViableLayout
        ELSE IF WholeV2 >= 1 /\ WholeV2 >= WholeV1 THEN RowsChosen("v2")
        ELSE RowsChosen("v1")

\* the conversion to arrays fails only in mode "probe" on v2 rows whose
\* 64-bit field, read as rc, no int32 holds; every other selection returns
ConversionFailsOnlyInProbe ==
    ConversionFailed =>
        /\ vmode = "probe"
        /\ Selected = "v2"
        /\ Int32Overflows(vrows.rows, vdata)

--------------------------------------------------------------------------
(* Claims about the kind detectors, checked under SpecDet *)

\* the kind whose container magic is m
KindOfMagic(m) ==
    CASE m = DEPTH_MAGIC -> "depth"
      [] m = WORLDCAM_MAGIC -> "worldcam"
      [] m = HEADPOSE_MAGIC -> "headpose"
      [] m = CVPOSE_MAGIC -> "cvpose"
      [] m = RGBPOSE_MAGIC -> "rgbpose"
      [] m = IMU_MAGIC -> "imu"

\* the magics of the six kinds of the closed enumeration
KindMagics ==
    { DEPTH_MAGIC, WORLDCAM_MAGIC, HEADPOSE_MAGIC, CVPOSE_MAGIC,
      RGBPOSE_MAGIC, IMU_MAGIC }

\* the magics the detectors' branches name
DetectorMagics == KindMagics \ { IMU_MAGIC }

BothCalled == tbin # NotCalled /\ ttype # NotCalled

\* C16: for a container that starts with the magic of one of the six
\* kinds, detect_bin_type and detect_type both return that kind.
C16_SixKindsRecognised ==
    \A m \in KindMagics :
        (BothCalled /\ StartsWith(tfile, m)) =>
            /\ tbin = Return(KindOfMagic(m))
            /\ ttype = Return(KindOfMagic(m))

\* what the code does: the five kinds other than IMU are returned by both
\* detectors, the IMU magic is unknown to both
C16_FiveKindsRecognised ==
    /\ \A m \in DetectorMagics :
         (BothCalled /\ StartsWith(tfile, m)) =>
             /\ tbin = Return(KindOfMagic(m))
             /\ ttype = Return(KindOfMagic(m))
    /\ (BothCalled /\ StartsWith(tfile, IMU_MAGIC)) =>
             /\ tbin.kind = "error"
             /\ ttype = Return("unknown")

\* the leading bytes are none of the known magics
NoKnownMagic == \A m \in KindMagics : FileRead(tfile, 0, 8) # m

\* C17: on a container whose leading bytes match none of the known
\* magics, detect_bin_type and detect_type both fail with an
\* unrecognised-format error and return no value.
C17_UnknownMagicFails ==
    (BothCalled /\ NoKnownMagic) =>
        /\ tbin.kind = "error"
        /\ ttype.kind = "error"

\* what the code does for leading bytes that start with none of the
\* prefixes detect_bin_type looks for: it raises ValueError, and detect_type
\* returns the value "unknown"
C17_UnknownMagicOutcomes ==
    (BothCalled
     /\ \A q \in { CVPOSE_PREFIX, HEADPOSE_MAGIC, RGBPOSE_PREFIX, DEPTH_MAGIC,
                   WORLDCAM_MAGIC } : ~StartsWith(tfile, q)) =>
        /\ tbin = Raise("ValueError", "Unknown bin format")
        /\ ttype = Return("unknown")

--------------------------------------------------------------------------
(* Rejection of foreign containers, checked under SpecCv, SpecIter and
   SpecHead *)

\* C18: a reader returns no record from a container whose leading magic is
\* not the magic of its kind or whose version it does not support: it
\* rejects the container with an error before decoding any record (here
\* read_cvpose of ml2_read_cvpose.py on a container with another magic).
C18_ForeignContainerRejected ==
    (Len(cfile) >= 12 /\ Take(cfile, 8) # CVPOSE_MAGIC) =>
        /\ crows = <<>>
        /\ CvFinished => cstate = "failed"

\* iter_frames does reject: with another magic or version nothing is
\* yielded and ValueError escapes
C18_IterRejects ==
    (Len(dfile) >= 12 /\ ~ValidDepthHeader) =>
        /\ yielded = <<>>
        /\ dstate \in {"ended", "failed"} =>
             (dstate = "failed" /\ derror.type = "ValueError")

\* both read_headpose do reject: with another magic or version no record
\* is kept and ValueError is raised
C18_HeadRejects ==
    (Len(hfile) >= 12 /\ ~ValidHeadHeader) =>
        /\ hrows = <<>>
        /\ HeadFinished => (hstate = "failed" /\ herror.type = "ValueError")

--------------------------------------------------------------------------
(* Round trip of HEADPOSE containers, checked under SpecHead *)

\* the file is the header and the N written records, whole
WholeHeadContainer ==
    hfile = ContainerHeader(HEADPOSE_MAGIC, 2) \o HeadRecsBytes(hwritten)

\* what read_headpose of ml2_correctness_report.py returns of a written
\* record
RepHeadRowOf(r) ==
    [index |-> r.frame_index, unity_t |-> <<"f32", r.unity_time>>,
     ts |-> r.ts, rc |-> r.result,
     q |-> [i \in 1..4 |-> <<"f32", r.quat[i]>>],
     p |-> [i \in 1..3 |-> <<"f32", r.pos[i]>>],
     status |-> r.status, conf |-> <<"f32", r.confidence>>,
     err |-> r.error_flags, has_evt |-> r.has_map_event,
     evt_mask |-> r.map_events_mask]

\* the rows a reader has when it returns every written record unchanged
RoundTripRows ==
    IF hreader = "report"
    THEN [i \in 1..Len(hwritten) |-> RepHeadRowOf(hwritten[i])]
    ELSE [i \in 1..Len(hwritten) |-> HeadRowOf(hwritten[i])]

\* C19: for every N (N = 0 included) and every N records, reading the
\* container made of the header and the N records yields exactly the N
\* records, in order, every field as written, with either read_headpose.
C19_RoundTripEveryN ==
    (HeadFinished /\ WholeHeadContainer) =>
        /\ hstate = "returned"
        /\ hrows = RoundTripRows

\* C19 as amended: the round trip holds for every N >= 0 with
\* read_headpose of ml2_read_headpose.py (for the nine fields it returns:
\* all but frameIndex and unityTime) and for every N >= 1 with
\* read_headpose of ml2_correctness_report.py (all sixteen fields); on a
\* container of N = 0 records the latter raises ValueError.
C19_RoundTripNonEmpty ==
    (HeadFinished /\ WholeHeadContainer) =>
        IF hreader = "report" /\ Len(hwritten) = 0
        THEN /\ hstate = "failed"
             /\ herror = [type |-> "ValueError",
                          msg |-> "No headpose records"]
        ELSE /\ hstate = "returned"
             /\ herror = NoError
             /\ hrows = RoundTripRows

\* two different records written and read back by the report's reader
C19_Witness ==
    /\ hreader = "report"
    /\ hstate = "returned"
    /\ WholeHeadContainer
    /\ Len(hwritten) = 2
    /\ hwritten[1] # hwritten[2]
    /\ hrows = <<RepHeadRowOf(hwritten[1]), RepHeadRowOf(hwritten[2])>>
    /\ hrows[2].evt_mask = 1000000

--------------------------------------------------------------------------
(* The blocks of a yielded Frame, checked under SpecIter *)

\* the types of the five slots of a written frame
SlotTypes(fr) == { fr.slots[i].block_type : i \in 1..5 }

\* the last slot of a written frame that carries type t
LastSlotOfType(fr, t) ==
    fr.slots[CHOOSE i \in 1..5 :
               /\ fr.slots[i].block_type = t
               /\ \A j \in (i + 1)..5 : fr.slots[j].block_type # t]

FiveDistinctTypes(fr) == SlotTypes(fr) = 1..5

\* C20: every yielded Frame has a blocks mapping whose keys are block
\* types in 1..5, each key mapping to the block of that type read for the
\* frame; for a frame whose slots carry the five types 1..5 the mapping
\* has five entries and get(t) is the block read from the slot of type t;
\* get returns None for a type that is not in the mapping.
C20_BlockKeysInOneToFive ==
    \A k \in 1..Len(yielded) :
        /\ DOMAIN yielded[k].blocks \subseteq 1..5
        /\ \A t \in DOMAIN yielded[k].blocks :
              /\ yielded[k].blocks[t].block_type = t
              /\ \E i \in 1..5 : yielded[k].blocks[t] = written[k].slots[i]
        /\ FiveDistinctTypes(written[k]) =>
              /\ Cardinality(DOMAIN yielded[k].blocks) = 5
              /\ \A t \in 1..5 :
                    get(yielded[k], t) = LastSlotOfType(written[k], t)
        /\ \A t \in (0..10) \ DOMAIN yielded[k].blocks :
              get(yielded[k], t) = None

\* C20 as amended: the keys of the blocks mapping are the type bytes of
\* the five slots read for the frame, whatever their value (the reader
\* does not check them; they are in 1..5 when the frame carries only types
\* 1..5), each key mapping to the last block read with that type; for a
\* frame whose slots carry the five types 1..5 the mapping has five entries
\* and get(t) is the block read from the slot of type t; get returns None
\* for a type that is not in the mapping.
C20_BlockKeysAreSlotTypes ==
    \A k \in 1..Len(yielded) :
        /\ DOMAIN yielded[k].blocks = SlotTypes(written[k])
        /\ DOMAIN yielded[k].blocks \subseteq 0..255
        /\ \A t \in DOMAIN yielded[k].blocks :
              /\ yielded[k].blocks[t].block_type = t
              /\ yielded[k].blocks[t] = LastSlotOfType(written[k], t)
        /\ FiveDistinctTypes(written[k]) =>
              /\ Cardinality(DOMAIN yielded[k].blocks) = 5
              /\ \A t \in 1..5 :
                    get(yielded[k], t) = LastSlotOfType(written[k], t)
        /\ \A t \in (0..10) \ DOMAIN yielded[k].blocks :
              get(yielded[k], t) = None

\* a frame with the five types yielded with five entries, and a frame
\* whose slots repeat type 5 yielded with the last block of that type
C20_Witness ==
    /\ Len(yielded) = 2
    /\ FiveDistinctTypes(written[1])
    /\ Cardinality(DOMAIN yielded[1].blocks) = 5
    /\ get(yielded[1], 1).nbytes = 16
    /\ get(yielded[1], 7) = None
    /\ written[2].slots[1].block_type = 5
    /\ written[2].slots[3].block_type = 5
    /\ get(yielded[2], 5).payload = <<2, 2, 2, 2>>
    /\ get(yielded[2], 3) = None


--------------------------------------------------------------------------
(* recvn and fragmentation, checked under SpecRecv *)

\* bytes the receiver has consumed for its first k deliveries: a header and
\* the payload for each
RECURSIVE ConsumedFor(_)
ConsumedFor(k) ==
    IF k = 0 THEN 0
    ELSE ConsumedFor(k - 1) + HDR_SIZE + Len(deliveries[k].data)

\* the header the stream holds at offset start
HeaderAt(start) == UnpackHdr(SubSeq(wire, start + 1, start + HDR_SIZE))

\* C27: however the connection fragments the byte stream, recvn(conn, n)
\* collects the next bytes of the stream in order and never more than n of
\* them, so the deliveries are determined by the stream alone: delivery k
\* is named by the header found where delivery k - 1 ended and holds the
\* payload_len bytes after that header, and after k deliveries exactly the
\* sum over them of HDR_SIZE + payload_len bytes have been consumed.
C27_FragmentationIndependent ==
    LET n == Len(deliveries)
    IN /\ Len(buf) <= want
       /\ buf = SubSeq(wire, rpos - Len(buf) + 1, rpos)
       /\ hdrStart = ConsumedFor(n)
       /\ rstate = "header" => rpos - Len(buf) = ConsumedFor(n)
       /\ rstate = "payload" =>
            /\ rpos - Len(buf) = ConsumedFor(n) + HDR_SIZE
            /\ hdr = HeaderAt(ConsumedFor(n))
            /\ want = hdr.payload_len
       /\ \A k \in 1..n :
            LET start == ConsumedFor(k - 1)
            IN /\ deliveries[k].name = FileName(HeaderAt(start))
               /\ Len(deliveries[k].data) = HeaderAt(start).payload_len
               /\ deliveries[k].data =
                     SubSeq(wire, start + HDR_SIZE + 1, ConsumedFor(k))

\* a frame was delivered and recvn holds one byte of the next header:
\* a chunk that ended inside a record
C27_Witness ==
    /\ Len(deliveries) = 1
    /\ Len(deliveries[1].data) > 0
    /\ rstate = "header"
    /\ Len(buf) = 1
    /\ rpos = ConsumedFor(1) + 1

--------------------------------------------------------------------------
(* Truncation inside the container header and termination of iter_frames,
   checked under SpecIter *)

\* the file ends inside the 12-byte container header
EndsInsideHeader ==
    /\ Len(dfile) < 12
    /\ dfile = Take(ContainerHeader(DEPTH_MAGIC, 1), Len(dfile))

\* C28: on a file that ends inside the 12-byte container header (an empty
\* file included) iter_frames fails with an error that escapes to the
\* caller and yields nothing; on a file that ends anywhere after a valid
\* header it never fails.
C28_HeaderTruncationEscapes ==
    /\ (EndsInsideHeader /\ dstate # "start") =>
          /\ dstate = "failed"
          /\ derror = [type |-> "EOFError", msg |-> "header"]
          /\ yielded = <<>>
    /\ ValidDepthHeader =>
          /\ dstate # "failed"
          /\ derror = NoError

\* an eleven-byte file: the magic and three bytes of the version
C28_Witness ==
    /\ Len(dfile) = 11
    /\ EndsInsideHeader
    /\ dstate = "failed"
    /\ derror.type = "EOFError"

\* the byte count of the block header at the read position
ByteCountAt(pos) == FromLESigned(SubSeq(dfile, pos + 18, pos + 21))

\* a step of "for _i in range(5)" that read a block
SlotStep ==
    /\ dstate = "slots" /\ dstate' = "slots"
    /\ dcur'.nslots = dcur.nslots + 1

\* a bound on the steps the iteration can still take: eight for every byte
\* not yet read, plus the steps left at the current place of the loop
IterRank ==
    CASE dstate = "start" -> 3
      [] dstate = "slots" -> 2
      [] dstate = "prefix" -> 1
      [] OTHER -> 0

IterMeasure == 8 * (Len(dfile) - dpos) + IterRank

\* C30: iter_frames terminates on every finite file: the read position
\* never decreases and never passes the end of the file, a block with a
\* zero or negative byte count moves it by the 21 bytes of the block header
\* and no payload byte, every yielded frame consumed at least 117 bytes,
\* and every step of the iteration lowers a non-negative measure, so no
\* run of the iteration is infinite.
C30_IterationTerminates ==
    [][/\ dpos' >= dpos
       /\ dpos' <= Len(dfile)
       /\ SlotStep => dpos' = dpos + 21 + Max(0, ByteCountAt(dpos))
       /\ Len(yielded') > 0 => dpos' >= 12 + 117 * Len(yielded')
       /\ IterMeasure' >= 0
       /\ IterMeasure' < IterMeasure]_vars

\* the iteration ended after yielding a frame whose first block has byte
\* count -1
C30_Witness ==
    /\ dstate = "ended"
    /\ Len(yielded) >= 1
    /\ \E k \in 1..Len(yielded) : written[k].slots[1].nbytes = 0 - 1

--------------------------------------------------------------------------
(* Agreement of the two kind detectors, checked under SpecDet *)

DetectorKinds == {"cvpose", "headpose", "rgbpose", "depth", "worldcam"}

\* C29: detect_bin_type returns kind K exactly when detect_type returns
\* kind K, and detect_bin_type raises exactly when detect_type returns
\* 'unknown'.
C29_DetectorsAgree ==
    BothCalled =>
        /\ \A K \in DetectorKinds :
              (tbin = Return(K)) <=> (ttype = Return(K))
        /\ (tbin.kind = "error") <=> (ttype = Return("unknown"))


--------------------------------------------------------------------------
(* Claims about the container readers, checked under SpecReaders *)

\* record size of a fixed-layout kind: the sum of the widths of its fields
KindRecordSize(kind) ==
    CASE kind = "cvpose" -> calcsize(CV_V2)
      [] kind = "headpose" -> calcsize(HEAD_REC_V2)
      [] kind = "imu" -> FieldsWidth(IMU_FIELDS)

\* the records reader r has read so far start at the offsets
\* first, first + size, first + 2 * size, ...
ReadsAtStride(r, first, size) ==
    \A k \in 1..Len(xrecs[r]) : xrecs[r][k].off = first + (k - 1) * size

\* C21: every reader of CVPOSE v2 records reads record k at the offset the
\* structs CV_V2 and REC put it, 12 + (k - 1) * calcsize(CV_V2), and every
\* reader of HEADPOSE v2 records at 12 + (k - 1) * calcsize(HEAD_REC_V2):
\* all readers of a kind advance by the sum of the widths of its fields.
C21_PoseReadersSameRecordSize ==
    /\ calcsize(REC) = calcsize(CV_V2)
    /\ calcsize(HEAD_REC) = calcsize(HEAD_REC_V2)
    /\ \A d \in FixedReaders :
         (xkind = d.kind /\ d.kind \in {"cvpose", "headpose"}) =>
             ReadsAtStride(d.name, 12, KindRecordSize(d.kind))

\* C22: the three IMU readers read their first record at offset 16 and
\* record k at 16 + (k - 1) * size, where size is the sum of the widths of
\* the eleven fields they unpack.
C22_ImuReadersSameRecordSize ==
    \A d \in FixedReaders :
        (xkind = "imu" /\ d.kind = "imu") =>
            /\ (xstate[d.name] = "loop" /\ xrecs[d.name] = <<>>) =>
                   xpos[d.name] = 16
            /\ FieldsWidth(d.fields) = KindRecordSize("imu")
            /\ ReadsAtStride(d.name, 16, KindRecordSize("imu"))


\* C23: every RGB+pose reader begins record k at the offset where the
\* writer put it (a 69-byte prefix with a one-byte pose-valid flag, then
\* as many payload bytes as the record's byte count says), and returns no
\* record whose payload was cut short by the end of the file.
C23_RgbposeReadersAgree ==
    \A d \in StreamReaders :
        (xkind = "rgbpose" /\ d.kind = "rgbpose") =>
            \A k \in 1..Len(xrecs[d.name]) :
                /\ xrecs[d.name][k].off = RecOffset(xsrc, k)
                /\ xrecs[d.name][k].whole


\* C24: both world-camera readers take the header to be magic, version and
\* a 4-byte mask, so each reads its first record at offset 16, and both
\* read record k at the same offset with the same index, timestamp,
\* camera id and byte count.
C24_WorldcamReadersAgree ==
    xkind = "worldcam" =>
        /\ \A d \in StreamReaders :
             (d.kind = "worldcam" /\ xstate[d.name] = "loop"
                  /\ xrecs[d.name] = <<>>) => xpos[d.name] = 16
        /\ \A k \in 1..Min(Len(xrecs["report_read_worldcam"]),
                           Len(xrecs["parse_worldcam_file"])) :
             xrecs["report_read_worldcam"][k] = xrecs["parse_worldcam_file"][k]


\* the file holds the whole container: no byte is missing
WholeFile == xfile = xsrc.hdr \o JoinAll(xsrc.recs)

\* C25: on a whole depth container of five block slots per frame, every
\* depth reader reads the prefix of frame k at the offset where the writer
\* put it (after the five slots of each earlier frame) and reports the
\* frame index and the timestamp written there.
C25_DepthReadersAgree ==
    (xkind = "depth" /\ WholeFile) =>
        \A d \in StreamReaders :
            d.kind = "depth" =>
                \A k \in 1..Len(xrecs[d.name]) :
                    /\ k <= Len(xsrc.recs)
                    /\ xrecs[d.name][k].off = RecOffset(xsrc, k)
                    /\ xrecs[d.name][k].idx =
                           FromLE(SubSeq(xsrc.recs[k], 1, 4))
                    /\ xrecs[d.name][k].ts =
                           FromLESigned(SubSeq(xsrc.recs[k], 5, 12))

\* the entries of what read_depthraw returns whose five block slots were
\* read in full
FullyReadFrames ==
    Cardinality({ k \in 1..Len(xrecs["report_read_depthraw"]) :
                    xrecs["report_read_depthraw"][k].full })

\* C26: what read_depthraw returns holds the index and the timestamp of
\* the completely read frames only: as many entries as there are frames
\* whose five block slots were read in full.
C26_DepthrawOnlyCompleteFrames ==
    (xkind = "depth" /\ RdFinished("report_read_depthraw")) =>
        Len(xrecs["report_read_depthraw"]) = FullyReadFrames

=============================================================================
